---- MODULE Spec2Model ----
(***************************************************************************)
(* The password-based archive of zydiig/secrets: ArchiveWriter,            *)
(* ArchiveReader and ObjectReader of src/src/archive/mod.rs over the       *)
(* secret stream, the compressor and the volume files.                     *)
(*                                                                         *)
(* A volume file is a sequence of AEAD frames; a frame carries the         *)
(* position it was pushed at (libsodium chains the nonce, so a frame is    *)
(* accepted only at that position), its plaintext and its length in bytes. *)
(* I/O on the sink and on the source files succeeds.                       *)
(***************************************************************************)
EXTENDS Integers, Sequences, FiniteSets, TLC

\* ---------------------------------------------------------------- bounds
MaxObjects == 2        \* write_object calls on one writer
MaxFileLen == 2        \* content units of a source file
MaxEndCalls == 2       \* explicit end() calls on one writer
ReadBufLen == 2        \* content units one file.read may return (the 2 MiB buf)
MaxTamperObjects == 1  \* write_object calls behind an archive that is tampered with
MaxPut == 5            \* bytes put into one Buffer
MaxMessages == 4       \* messages pushed into one secret stream
MaxSizeLen == 4        \* characters of a size given on the command line
MaxWrapLen == 3        \* bytes of a Vec given to Buffer::wrap

\* ------------------------------------------------------ program constants
ADDITIONAL_BYTES == 17   \* crypto_secretstream_xchacha20poly1305_ABYTES
HEADER_BYTES == 24       \* crypto_secretstream_xchacha20poly1305_HEADERBYTES
SALT_BYTES == 16         \* crypto_pwhash_SALTBYTES
ParamBytes == 16         \* 2 * size_of::<u64>()
InfoBytes == 5           \* size_of::<u32>() + 1
VolumeEndAllowance == 1024
SafetyMargin == 4096

Bytes == {1, 2}
None == <<>>
Some(x) == <<x>>

Min(a, b) == IF a < b THEN a ELSE b

\* let v be bound in F: v is computed once however often F uses it (With for
\* a value, Bind for an action)
With(v, F(_)) == CHOOSE y \in {F(x) : x \in {v}} : TRUE
Bind(v, A(_)) == \E x \in {v} : A(x)

RECURSIVE SeqsUpTo(_)
SeqsUpTo(n) ==
    IF n = 0 THEN {<<>>}
    ELSE LET S == SeqsUpTo(n - 1)
         IN  S \cup {Append(s, b) : s \in {t \in S : Len(t) = n - 1}, b \in Bytes}

\* ---------------------------------------------------------- ChunkType
ChunkType == {"Data", "Header", "Epilogue", "VolumeEnd", "End"}

ChunkTypeAsU8(t) ==
    CASE t = "Data" -> 0
      [] t = "Header" -> 1
      [] t = "Epilogue" -> 2
      [] t = "VolumeEnd" -> 3
      [] t = "End" -> 4

\* TryFrom<u8> for ChunkType; "Invalid" is the Err arm
ChunkTypeTryFrom(b) ==
    CASE b = 0 -> "Data"
      [] b = 1 -> "Header"
      [] b = 2 -> "Epilogue"
      [] b = 3 -> "VolumeEnd"
      [] b = 4 -> "End"
      [] OTHER -> "Invalid"

\* BigEndian::write_u32 / read_u32 on the 4 length bytes of the info frame
BigEndianWriteU32(n) ==
    << (n \div 16777216) % 256, (n \div 65536) % 256, (n \div 256) % 256, n % 256 >>

BigEndianReadU32(b) == ((b[1] * 256 + b[2]) * 256 + b[3]) * 256 + b[4]

\* lengths of up to 2^33 as two limbs, hi * 2^16 + lo, so that the u32 casts of
\* write_chunk_unchecked can be followed past 2^32
Limb == 65536
Wide(hi, lo) == [hi |-> hi, lo |-> lo]
WideAdd(x, k) == Wide(x.hi + (x.lo + k) \div Limb, (x.lo + k) % Limb)
AsU32(x) == Wide(x.hi % Limb, x.lo)                  \* `as u32`
FitsU32(x) == x.hi < Limb                            \* `as u64 <= std::u32::MAX as u64`
WideWriteU32(x) == << x.hi \div 256, x.hi % 256, x.lo \div 256, x.lo % 256 >>
WideReadU32(b) == Wide(b[1] * 256 + b[2], b[3] * 256 + b[4])

\* the length field as it would be without the two asserts
LengthField_NoAssert(len) ==
    LET clen == WideAdd(len, ADDITIONAL_BYTES)
    IN  [res |-> "written", field |-> WideWriteU32(AsU32(clen))]

\* write_chunk_unchecked on a payload of len bytes, as far as the length goes:
\* the 4 bytes written behind the kind byte, or the panic of the assert that
\* comes before the first write_all
LengthField(len) ==
    LET clen == WideAdd(len, ADDITIONAL_BYTES)
        field == WideWriteU32(AsU32(clen))
    IN  IF ~FitsU32(clen) THEN [res |-> "panic"]
        ELSE [res |-> "written", field |-> field]

\* read_chunk: the number of bytes read_exact is asked for as payload frame
PayloadRead(field) == WideReadU32(field)

\* format!(".{:03}", n): a dot, then n in decimal, zero-padded to at least
\* three digits
DecDigits == <<"0", "1", "2", "3", "4", "5", "6", "7", "8", "9">>
RECURSIVE Decimal(_)
Decimal(n) ==
    IF n < 10 THEN <<DecDigits[n + 1]>>
    ELSE Decimal(n \div 10) \o <<DecDigits[(n % 10) + 1]>>
Format03(n) ==
    LET d == Decimal(n)
    IN  <<".">> \o (IF Len(d) >= 3 THEN d ELSE [i \in 1..(3 - Len(d)) |-> "0"] \o d)

\* get_real_path on a file name (the directory part is kept as it is)
get_real_path(filename, volume_counter) == filename \o Format03(volume_counter)

EndsWith(name, suffix) ==
    /\ Len(name) >= Len(suffix)
    /\ SubSeq(name, Len(name) - Len(suffix) + 1, Len(name)) = suffix

\* the file name as it would be derived if the first ".001" in it were replaced
NextVolumeName_ReplacesFirst(filename, volume_counter) ==
    IF ~EndsWith(filename, Format03(1))
    THEN [res |-> "Err:filename", volume_counter |-> volume_counter]
    ELSE LET vc == (IF volume_counter = None THEN 1 ELSE volume_counter[1]) + 1
             at == CHOOSE i \in 1..Len(filename) :
                     /\ SubSeq(filename, i, i + 3) = Format03(1)
                     /\ \A j \in 1..(i - 1) : SubSeq(filename, j, j + 3) # Format03(1)
         IN  [res |-> "Ok", volume_counter |-> Some(vc),
              name |-> SubSeq(filename, 1, at - 1) \o Format03(vc)
                       \o SubSeq(filename, at + 4, Len(filename))]

\* open_next_volume: the file name it opens, from the name the reader was
\* opened on and its volume_counter
NextVolumeName(filename, volume_counter) ==
    IF ~EndsWith(filename, Format03(1))
    THEN [res |-> "Err:filename", volume_counter |-> volume_counter]
    ELSE LET vc == (IF volume_counter = None THEN 1 ELSE volume_counter[1]) + 1
         IN  [res |-> "Ok", volume_counter |-> Some(vc),
              name |-> SubSeq(filename, 1, Len(filename) - 4) \o Format03(vc)]

\* a size as its digits to base 1024, most significant first and without
\* leading zeros (0 is the empty sequence), so that n * 1024^3 can be written
RECURSIVE ToLimbs(_)
ToLimbs(n) == IF n = 0 THEN <<>> ELSE Append(ToLimbs(n \div 1024), n % 1024)
RECURSIVE Normalize(_)
Normalize(limbs) ==
    IF limbs # <<>> /\ Head(limbs) = 0 THEN Normalize(Tail(limbs)) ELSE limbs

IsDigit(c) == \E k \in 0..9 : DecDigits[k + 1] = c
DigitOf(c) == CHOOSE k \in 0..9 : DecDigits[k + 1] = c
RECURSIVE DigitsValue(_)
DigitsValue(d) ==
    IF d = <<>> THEN 0
    ELSE DigitsValue(SubSeq(d, 1, Len(d) - 1)) * 10 + DigitOf(d[Len(d)])
RECURSIVE Pow10(_)
Pow10(k) == IF k = 0 THEN 1 ELSE 10 * Pow10(k - 1)

\* the j digits to base 1024 that follow the point of r / den
RECURSIVE FractionLimbs(_, _, _)
FractionLimbs(r, den, j) ==
    IF j = 0 THEN <<>>
    ELSE <<(r * 1024) \div den>> \o FractionLimbs((r * 1024) % den, den, j - 1)

\* the power of 1024 a suffix stands for
SuffixPower(suffix) ==
    CASE suffix = "K" -> 1 [] suffix = "M" -> 2 [] suffix = "G" -> 3 [] OTHER -> 0

\* parse_size: the pattern ^([0-9.]+)(K|M|G)?$, the number parsed as f64,
\* multiplied, floor, as u64. The inputs are short enough for every f64 here
\* to be exact or to round to the floor of the exact value.
parse_size(size) ==
    LET suffixed == size # <<>> /\ size[Len(size)] \in {"K", "M", "G"}
        number == IF suffixed THEN SubSeq(size, 1, Len(size) - 1) ELSE size
        dots == {i \in 1..Len(number) : number[i] = "."}
    IN  IF number = <<>> \/ \E i \in 1..Len(number) : ~IsDigit(number[i]) /\ number[i] # "."
        THEN [res |-> "Err:Invalid size specification"]
        ELSE IF Cardinality(dots) > 1 \/ Cardinality(dots) = Len(number)
        THEN [res |-> "Err:Error parsing number"]
        ELSE LET point == IF dots = {} THEN Len(number) + 1 ELSE CHOOSE i \in dots : TRUE
                 whole == DigitsValue(SubSeq(number, 1, point - 1))
                 frac == SubSeq(number, point + 1, Len(number))
                 j == IF suffixed THEN SuffixPower(size[Len(size)]) ELSE 0
             IN  [res |-> "Ok",
                  size |-> Normalize(ToLimbs(whole)
                                     \o FractionLimbs(DigitsValue(frac), Pow10(Len(frac)), j))]

\* ------------------------------------------------------------ primitives
OPSLIMIT == 3
MEMLIMIT == 1073741824
GENERICHASH_BYTES == 32   \* crypto_generichash_BYTES

\* pwhash::pwhash: a key is a function of all four inputs (never fails here)
pwhash(password, salt, opslimit, memlimit) ==
    [password |-> password, salt |-> salt, opslimit |-> opslimit, memlimit |-> memlimit]

\* SecretStream::push at stream position seq: len(ciphertext) = len(plaintext) + ABYTES
Push(sid, seq, pt, ptlen) ==
    [sid |-> sid, seq |-> seq, pt |-> pt, len |-> ptlen + ADDITIONAL_BYTES]

\* Hasher: a running digest over the bytes fed to it, in order
HasherNew == 7
RECURSIVE HasherUpdate(_, _)
HasherUpdate(h, data) ==
    IF data = <<>> THEN h
    ELSE HasherUpdate((h * 31 + Head(data)) % 251, Tail(data))
HasherFinalize(h) == <<h>>

HexDigits == <<"0", "1", "2", "3", "4", "5", "6", "7",
               "8", "9", "a", "b", "c", "d", "e", "f">>
RECURSIVE to_hex(_)
to_hex(data) ==
    IF data = <<>> THEN <<>>
    ELSE << HexDigits[(Head(data) \div 16) + 1], HexDigits[(Head(data) % 16) + 1] >>
         \o to_hex(Tail(data))

\* Compressor (streaming codec): input is buffered until a block is full;
\* compress returns the flushed block or nothing, finish returns the rest
\* and ends the frame. A content unit 1 compresses well, a unit 2 does not.
ZBlock == 2
RECURSIVE ZLen(_)
ZLen(p) ==
    IF p = <<>> THEN 0
    ELSE (IF Head(p) = 1 THEN 159 ELSE 4100) + ZLen(Tail(p))
EmptyOut == [z |-> <<>>, fin |-> FALSE, len |-> 0]
Compress(pending, buf) ==
    LET p == pending \o buf
    IN  IF Len(p) >= ZBlock
        THEN [pending |-> <<>>, out |-> [z |-> p, fin |-> FALSE, len |-> ZLen(p)]]
        ELSE [pending |-> p, out |-> EmptyOut]
\* tail: length of the frame end the codec emits (0: nothing left to emit)
Finish(pending, tail) ==
    [z |-> pending, fin |-> TRUE, len |-> ZLen(pending) + tail]
Decompress(part) == part.z

\* serde_json of ObjectInfo (epilogue is #[serde(skip)]), ObjectEpilogue, Manifest
Digits(n) == IF n < 10 THEN 1 ELSE 2
InfoToJson(info) ==
    [json |-> "ObjectInfo", object_type |-> info.object_type, name |-> info.name,
     path |-> info.path,
     len |-> IF info.object_type = "file" THEN 87 ELSE 92]
InfoFromJson(part) ==
    [object_type |-> part.object_type, name |-> part.name, path |-> part.path,
     epilogue |-> None]
EpilogueToJson(ep) ==
    [json |-> "ObjectEpilogue", size |-> ep.size, hash |-> ep.hash,
     len |-> 19 + Digits(ep.size) + 2 * GENERICHASH_BYTES]
EpilogueFromJson(part) == [size |-> part.size, hash |-> part.hash]
RECURSIVE JsonSeqLen(_)
JsonSeqLen(js) ==
    IF js = <<>> THEN 0
    ELSE Head(js).len + (IF Len(js) > 1 THEN 1 ELSE 0) + JsonSeqLen(Tail(js))
ManifestToJson(objs) ==
    LET js == [i \in 1..Len(objs) |-> InfoToJson(objs[i])]
    IN  [json |-> "Manifest", objects |-> js, len |-> 14 + JsonSeqLen(js)]
ManifestFromJson(part) ==
    [objects |-> [i \in 1..Len(part.objects) |-> InfoFromJson(part.objects[i])]]

\* ObjectInfo::from_path
from_path(src) ==
    [object_type |-> src.kind, name |-> src.name, path |-> <<"t", src.name>>,
     epilogue |-> None]

\* ------------------------------------------------------------------ state
NoProbe == [res |-> "idle"]
NoRun == [res |-> "idle", done |-> <<>>]

VARIABLES
    disk,             \* the volume files: disk[n] is volume n (or the single file)
    pusher,           \* ArchiveWriter.pusher: messages pushed so far
    objects,          \* ArchiveWriter.objects
    volume_counter,   \* ArchiveWriter.volume_counter; self.file is disk[volume_counter]
    volume_size,      \* ArchiveWriter.volume_size: None or Some(V)
    byte_count,       \* ArchiveWriter.byte_count
    ended,            \* ArchiveWriter.ended
    overflow_checks,  \* the build: TRUE panics on u64 underflow, FALSE wraps
    sink,             \* the output directory: "ok", "write" (write_all fails),
                      \* "create" (File::create fails)
    probe,            \* one payload length taken through the length field alone
    wstate,           \* "open", "dropped" (after Drop), "aborted" (panic in Drop)
    wresult,          \* what the last writer call returned: "Ok", "Err", "panic"
    log,              \* history: the (kind, payload) pairs passed to write_chunk
    calls,            \* history: one record per write_object call
    n_end,            \* history: explicit end() calls made
    tamper,           \* what was done to the finished archive before reading it
    rstate,           \* "none" (no reader yet), "open", "panicked"
    r_file,           \* ArchiveReader.file: the volume it has open
    r_pos,            \* the byte offset of that file handle
    puller,           \* ArchiveReader.puller: its stream and messages pulled
    manifest,         \* ArchiveReader.manifest
    r_volume_counter, \* ArchiveReader.volume_counter
    oreader,          \* the live ObjectReader: None or Some(record)
    rresult,          \* what the last reader call returned
    returned,         \* history: the (kind, payload) pairs read_chunk returned
    robjs,            \* history: one record per object read_object returned
    rfirst,           \* history: how the first reader call to fail failed (Interrupted aside)
    misused,          \* history: the caller left a file undrained, read a directory,
                      \* or asked for an object after read_object returned None
    run,              \* what the last run of the binary on the archive came to
    r_zero            \* history: the last call on the live ObjectReader was a read
                      \* into a non-empty buffer that returned Ok(0)

rvars == << tamper, rstate, r_file, r_pos, puller, manifest, r_volume_counter,
            oreader, rresult, returned, robjs, rfirst, misused, r_zero, run >>

wvars == << disk, pusher, objects, volume_counter, volume_size, byte_count, ended,
            overflow_checks, sink, probe, wstate, wresult, log, calls, n_end >>

Password == "right"
Salt == "salt"
StreamHeader == "hdr"
WriterKey == pwhash(Password, Salt, OPSLIMIT, MEMLIMIT)
WriterSid == [key |-> WriterKey, header |-> StreamHeader]

\* the salt and the stream header of another archive
SaltB == "saltB"
StreamHeaderB == "hdrB"

\* the 16 bytes of a salt and the 24 bytes of a stream header
SaltBytes(salt) == [i \in 1..SALT_BYTES |-> (IF salt = Salt THEN 100 ELSE 120) + i]
StreamHeaderBytes(header) ==
    [i \in 1..HEADER_BYTES |-> (IF header = StreamHeader THEN 200 ELSE 230) + i]
SaltOf(b) ==
    IF \E s \in {Salt, SaltB} : b = SaltBytes(s)
    THEN CHOOSE s \in {Salt, SaltB} : b = SaltBytes(s) ELSE "garbled"
StreamHeaderOf(b) ==
    IF \E h \in {StreamHeader, StreamHeaderB} : b = StreamHeaderBytes(h)
    THEN CHOOSE h \in {StreamHeader, StreamHeaderB} : b = StreamHeaderBytes(h)
    ELSE "garbled"

\* BigEndian::write_u64_into / read_u64, for values below 2^32 (the upper four
\* bytes are then zero); a value outside that range reads as 0 - 1
BigEndianWriteU64(n) == <<0, 0, 0, 0>> \o BigEndianWriteU32(n)
BigEndianReadU64(b) ==
    IF SubSeq(b, 1, 4) = <<0, 0, 0, 0>> /\ b[5] < 128
    THEN BigEndianReadU32(SubSeq(b, 5, 8)) ELSE 0 - 1

\* what ArchiveWriter::new writes before the first frame: salt, the two
\* parameters, the stream header
WriteHeader(salt, opslimit, memlimit, header) ==
    SaltBytes(salt) \o BigEndianWriteU64(opslimit) \o BigEndianWriteU64(memlimit)
    \o StreamHeaderBytes(header)

\* ArchiveReader::new as it would be if it read memlimit before opslimit
ReadHeader_MemlimitFirst(b) ==
    [salt |-> SaltOf(SubSeq(b, 1, SALT_BYTES)),
     opslimit |-> BigEndianReadU64(SubSeq(b, SALT_BYTES + 9, SALT_BYTES + 16)),
     memlimit |-> BigEndianReadU64(SubSeq(b, SALT_BYTES + 1, SALT_BYTES + 8)),
     header |-> StreamHeaderOf(SubSeq(b, SALT_BYTES + ParamBytes + 1,
                                      SALT_BYTES + ParamBytes + HEADER_BYTES))]

\* what ArchiveReader::new reads from the start of the file it is opened on
ReadHeader(b) ==
    [salt |-> SaltOf(SubSeq(b, 1, SALT_BYTES)),
     opslimit |-> BigEndianReadU64(SubSeq(b, SALT_BYTES + 1, SALT_BYTES + 8)),
     memlimit |-> BigEndianReadU64(SubSeq(b, SALT_BYTES + 9, SALT_BYTES + 16)),
     header |-> StreamHeaderOf(SubSeq(b, SALT_BYTES + ParamBytes + 1,
                                      SALT_BYTES + ParamBytes + HEADER_BYTES))]

\* the 56 bytes ArchiveWriter::new writes before the first frame
FileHeader == WriteHeader(Salt, OPSLIMIT, MEMLIMIT, StreamHeader)
FileHeaderLen == SALT_BYTES + ParamBytes + HEADER_BYTES

NewVolume(head) == [head |-> head, frames |-> <<>>]
\* a volume file that is not there: File::open on its path fails
Absent == [absent |-> TRUE]

RECURSIVE FramesLen(_)
FramesLen(fs) == IF fs = <<>> THEN 0 ELSE Head(fs).len + FramesLen(Tail(fs))
\* on-disk size of a volume file
VolumeBytes(vol) ==
    (IF vol.head = None THEN 0 ELSE FileHeaderLen) + FramesLen(vol.frames)

VolumeSizes == {None, Some(4000), Some(6000), Some(8192)}

EmptyBytes == [len |-> 0]     \* &[]

\* the writer as one value, threaded through the calls of one handler
Writer ==
    [disk |-> disk, pusher |-> pusher, objects |-> objects,
     volume_counter |-> volume_counter, volume_size |-> volume_size,
     byte_count |-> byte_count, ended |-> ended, log |-> log, status |-> "Ok"]

\* ArchiveWriter::write_chunk_unchecked: two pushes, two write_all; a write_all
\* that fails is taken to have written nothing
write_chunk_unchecked(w, data, part_type) ==
    LET clen == data.len + ADDITIONAL_BYTES
        info == <<ChunkTypeAsU8(part_type)>> \o BigEndianWriteU32(clen)
        encrypted_info == Push(WriterSid, w.pusher, info, InfoBytes)
        encrypted_data == Push(WriterSid, w.pusher + 1, data, data.len)
        vol == w.disk[w.volume_counter]
    IN  IF sink = "write"
        THEN [w |-> [w EXCEPT !.pusher = w.pusher + 2, !.status = "Err"], n |-> 0]
        ELSE
        [w |-> [w EXCEPT !.pusher = w.pusher + 2,
                         !.disk[w.volume_counter].frames =
                             vol.frames \o <<encrypted_info, encrypted_data>>],
         n |-> encrypted_info.len + encrypted_data.len]

\* byte_count + chunk_size + extra_size > volume_size - 4 * 1024 in u64:
\* for volume_size < 4096 the subtraction wraps to 2^64 - (4096 - volume_size),
\* above every sum a sink can hold, or panics when overflow checks are on
RotationTest(bc, chunk_size, extra_size, V) ==
    IF V >= SafetyMargin
    THEN IF bc + chunk_size + extra_size > V - SafetyMargin THEN "rotate" ELSE "stay"
    ELSE IF overflow_checks THEN "panic" ELSE "stay"

\* write_chunk as it would be if the volume were closed without a VolumeEnd
write_chunk_NoVolumeEnd(w, data, part_type) ==
    IF w.status # "Ok" THEN w
    ELSE
    LET chunk_size == 4 + 1 + ADDITIONAL_BYTES + data.len + ADDITIONAL_BYTES
        extra_size == 4 + 1 + ADDITIONAL_BYTES + VolumeEndAllowance + ADDITIONAL_BYTES
        test == IF w.volume_size = None THEN "stay"
                ELSE RotationTest(w.byte_count, chunk_size, extra_size, w.volume_size[1])
    IN  IF test = "panic" THEN [w EXCEPT !.status = "panic"]
        ELSE
        With(IF test = "rotate"
             THEN [w EXCEPT !.disk = Append(w.disk, NewVolume(None)),
                            !.volume_counter = w.volume_counter + 1,
                            !.byte_count = 0]
             ELSE w, LAMBDA w1 :
        With(write_chunk_unchecked(w1, data, part_type), LAMBDA r :
            [r.w EXCEPT !.byte_count = w1.byte_count + r.n,
                        !.log = Append(w.log, [kind |-> part_type, payload |-> data])]))

\* write_chunk as it would be if byte_count were not reset for a new volume
write_chunk_KeepsByteCount(w, data, part_type) ==
    IF w.status # "Ok" THEN w
    ELSE
    LET chunk_size == 4 + 1 + ADDITIONAL_BYTES + data.len + ADDITIONAL_BYTES
        extra_size == 4 + 1 + ADDITIONAL_BYTES + VolumeEndAllowance + ADDITIONAL_BYTES
        test == IF w.volume_size = None THEN "stay"
                ELSE RotationTest(w.byte_count, chunk_size, extra_size, w.volume_size[1])
    IN  IF test = "panic" THEN [w EXCEPT !.status = "panic"]
        ELSE
        With(IF test = "rotate"
             THEN With(write_chunk_unchecked(w, EmptyBytes, "VolumeEnd").w, LAMBDA e :
                    IF e.status # "Ok" THEN e
                    ELSE IF sink = "create" THEN [e EXCEPT !.status = "Err"]
                    ELSE [e EXCEPT !.disk = Append(e.disk, NewVolume(None)),
                                   !.volume_counter = e.volume_counter + 1])
             ELSE w, LAMBDA w1 :
        IF w1.status # "Ok" THEN w1
        ELSE
        With(write_chunk_unchecked(w1, data, part_type), LAMBDA r :
            IF r.w.status # "Ok" THEN r.w
            ELSE [r.w EXCEPT !.byte_count = w1.byte_count + r.n,
                             !.log = Append(w.log, [kind |-> part_type, payload |-> data])]))

\* ArchiveWriter::write_chunk
write_chunk(w, data, part_type) ==
    IF w.status # "Ok" THEN w
    ELSE
    LET chunk_size == 4 + 1 + ADDITIONAL_BYTES + data.len + ADDITIONAL_BYTES
        extra_size == 4 + 1 + ADDITIONAL_BYTES + VolumeEndAllowance + ADDITIONAL_BYTES
        test == IF w.volume_size = None THEN "stay"
                ELSE RotationTest(w.byte_count, chunk_size, extra_size, w.volume_size[1])
    IN  IF test = "panic" THEN [w EXCEPT !.status = "panic"]
        ELSE
        With(IF test = "rotate"
             THEN With(write_chunk_unchecked(w, EmptyBytes, "VolumeEnd").w, LAMBDA e :
                    IF e.status # "Ok" THEN e
                    ELSE IF sink = "create" THEN [e EXCEPT !.status = "Err"]
                    ELSE [e EXCEPT !.disk = Append(e.disk, NewVolume(None)),
                                   !.volume_counter = e.volume_counter + 1,
                                   !.byte_count = 0])
             ELSE w, LAMBDA w1 :
        IF w1.status # "Ok" THEN w1
        ELSE
        With(write_chunk_unchecked(w1, data, part_type), LAMBDA r :
            IF r.w.status # "Ok" THEN r.w
            ELSE [r.w EXCEPT !.byte_count = w1.byte_count + r.n,
                             !.log = Append(w.log, [kind |-> part_type, payload |-> data])]))

\* ----------------------------------------------------------- write_object
\* what write_object is given: a path to a file, a directory or something else
Sources ==
    {[kind |-> "directory", name |-> "d", content |-> <<>>],
     [kind |-> "other", name |-> "s", content |-> <<>>]}
    \cup {[kind |-> "file", name |-> "f", content |-> c] : c \in SeqsUpTo(MaxFileLen)}

\* the counts successive file.read calls return for n remaining units
RECURSIVE Splits(_)
Splits(n) ==
    IF n = 0 THEN {<<>>}
    ELSE UNION {{<<k>> \o r : r \in Splits(n - k)} : k \in 1..Min(n, ReadBufLen)}

FinishTails == {0, 13}

\* how one call goes: the read counts, where the source fails (if it does),
\* and the length of the frame end finish() emits
PlansOk(src) ==
    IF src.kind # "file"
    THEN {[reads |-> <<>>, fail |-> "none", at |-> 0, tail |-> 0]}
    ELSE {[reads |-> r, fail |-> "none", at |-> 0, tail |-> t] :
            r \in Splits(Len(src.content)), t \in FinishTails}

\* the source fails: in from_path, in File::open, or in the k-th file.read
PlansFail(src) ==
    IF src.kind # "file"
    THEN {[reads |-> <<>>, fail |-> "from_path", at |-> 0, tail |-> 0]}
    ELSE UNION {
           {[reads |-> r, fail |-> f, at |-> 0, tail |-> 0] : f \in {"from_path", "open"}}
           \cup {[reads |-> r, fail |-> "read", at |-> k, tail |-> 0] : k \in 1..(Len(r) + 1)}
           : r \in Splits(Len(src.content))}

\* the loop as it would be if only the bytes of a flushed block were hashed
RECURSIVE ReadLoop_HashOnFlush(_, _, _)
ReadLoop_HashOnFlush(st, reads, plan) ==
    IF st.w.status # "Ok" THEN st
    ELSE IF plan.fail = "read" /\ plan.at = st.nread + 1
    THEN [st EXCEPT !.w.status = "Err"]
    ELSE IF reads = <<>> THEN st
    ELSE
    LET count == Head(reads)
        buf == SubSeq(st.rest, 1, count)
    IN  With(Compress(st.pending, buf), LAMBDA c :
        With(IF c.out.len # 0 THEN write_chunk(st.w, c.out, "Data") ELSE st.w, LAMBDA w1 :
            IF w1.status # "Ok" THEN [st EXCEPT !.w = w1]
            ELSE ReadLoop_HashOnFlush(
                    [w |-> w1,
                     pending |-> c.pending,
                     hasher |-> IF c.out.len # 0 THEN HasherUpdate(st.hasher, buf)
                                ELSE st.hasher,
                     size |-> st.size + count,
                     rest |-> SubSeq(st.rest, count + 1, Len(st.rest)),
                     nread |-> st.nread + 1,
                     read |-> st.read \o buf],
                    Tail(reads), plan)))

\* the loop of write_object: read, compress, write_chunk, hasher.update, size +=
RECURSIVE ReadLoop(_, _, _)
ReadLoop(st, reads, plan) ==
    IF st.w.status # "Ok" THEN st
    ELSE IF plan.fail = "read" /\ plan.at = st.nread + 1
    THEN [st EXCEPT !.w.status = "Err"]                \* file.read(&mut buf)?
    ELSE IF reads = <<>> THEN st                        \* count == 0: break
    ELSE
    LET count == Head(reads)
        buf == SubSeq(st.rest, 1, count)
    IN  With(Compress(st.pending, buf), LAMBDA c :
        With(IF c.out.len # 0 THEN write_chunk(st.w, c.out, "Data") ELSE st.w, LAMBDA w1 :
            IF w1.status # "Ok" THEN [st EXCEPT !.w = w1]
            ELSE ReadLoop([w |-> w1,
                           pending |-> c.pending,
                           hasher |-> HasherUpdate(st.hasher, buf),
                           size |-> st.size + count,
                           rest |-> SubSeq(st.rest, count + 1, Len(st.rest)),
                           nread |-> st.nread + 1,
                           read |-> st.read \o buf],
                          Tail(reads), plan)))

\* write_object past the directory test as it would be if an empty finish()
\* output were skipped like an empty compress() output
write_object_file_SkipsEmptyFinish(w1, src, plan, info, call) ==
    IF plan.fail = "open"
    THEN [w |-> [w1 EXCEPT !.status = "Err"], call |-> call]
    ELSE
    With(ReadLoop([w |-> w1, pending |-> <<>>, hasher |-> HasherNew, size |-> 0,
                   rest |-> src.content, nread |-> 0, read |-> <<>>],
                  plan.reads, plan), LAMBDA st :
    IF st.w.status # "Ok" THEN [w |-> st.w, call |-> [call EXCEPT !.read = st.read]]
    ELSE
    With([hash |-> to_hex(HasherFinalize(st.hasher)), size |-> st.size], LAMBDA epilogue :
    With(Finish(st.pending, plan.tail), LAMBDA last :
    With(write_chunk(IF last.len # 0 THEN write_chunk(st.w, last, "Data") ELSE st.w,
                     EpilogueToJson(epilogue), "Epilogue"), LAMBDA w3 :
    IF w3.status # "Ok" THEN [w |-> w3, call |-> [call EXCEPT !.read = st.read]]
    ELSE [w |-> [w3 EXCEPT !.objects =
                    Append(w3.objects, [info EXCEPT !.epilogue = Some(epilogue)])],
          call |-> [call EXCEPT !.read = st.read, !.ok = TRUE]]))))

\* write_object past the directory test: open the file, loop, finish the
\* compressor, write the Epilogue, push the ObjectInfo
write_object_file(w1, src, plan, info, call) ==
    IF plan.fail = "open"
    THEN [w |-> [w1 EXCEPT !.status = "Err"], call |-> call]   \* File::open(&path)?
    ELSE
    With(ReadLoop([w |-> w1, pending |-> <<>>, hasher |-> HasherNew, size |-> 0,
                   rest |-> src.content, nread |-> 0, read |-> <<>>],
                  plan.reads, plan), LAMBDA st :
    IF st.w.status # "Ok" THEN [w |-> st.w, call |-> [call EXCEPT !.read = st.read]]
    ELSE
    With([hash |-> to_hex(HasherFinalize(st.hasher)), size |-> st.size], LAMBDA epilogue :
    With(write_chunk(write_chunk(st.w, Finish(st.pending, plan.tail), "Data"),
                     EpilogueToJson(epilogue), "Epilogue"), LAMBDA w3 :
    IF w3.status # "Ok" THEN [w |-> w3, call |-> [call EXCEPT !.read = st.read]]
    ELSE [w |-> [w3 EXCEPT !.objects =
                    Append(w3.objects, [info EXCEPT !.epilogue = Some(epilogue)])],
          call |-> [call EXCEPT !.read = st.read, !.ok = TRUE]])))

\* write_object as it would be without the early return for directories
write_object_NoDirReturn(w, src, plan) ==
    LET info == from_path(src)
        call == [src |-> src, ok |-> FALSE, first |-> Len(w.log) + 1, last |-> Len(w.log),
                 read |-> <<>>]
    IN  IF plan.fail = "from_path" \/ src.kind = "other"
        THEN [w |-> [w EXCEPT !.status = "Err"], call |-> call]
        ELSE
        With(write_chunk(w, InfoToJson(info), "Header"), LAMBDA w1 :
        IF w1.status # "Ok" THEN [w |-> w1, call |-> call]
        ELSE write_object_file(w1, src, plan, info, call))

\* ArchiveWriter::write_object; returns the writer and the call's history record
write_object(w, src, plan) ==
    LET info == from_path(src)
        call == [src |-> src, ok |-> FALSE, first |-> Len(w.log) + 1, last |-> Len(w.log),
                 read |-> <<>>]
    IN  IF plan.fail = "from_path" \/ src.kind = "other"
        THEN [w |-> [w EXCEPT !.status = "Err"], call |-> call]
        ELSE
        With(write_chunk(w, InfoToJson(info), "Header"), LAMBDA w1 :
        IF w1.status # "Ok" THEN [w |-> w1, call |-> call]
        ELSE IF info.object_type = "directory"
        THEN [w |-> w1, call |-> [call EXCEPT !.ok = TRUE]]
        ELSE write_object_file(w1, src, plan, info, call))

\* ArchiveWriter::end
end(w) ==
    IF ~w.ended
    THEN write_chunk([w EXCEPT !.ended = TRUE], ManifestToJson(w.objects), "End")
    ELSE w

\* -------------------------------------------------------- writer actions
Builds ==
    {<<v, FALSE>> : v \in VolumeSizes}
    \cup {<<v, TRUE>> : v \in {u \in VolumeSizes : u # None /\ u[1] < SafetyMargin}}

\* the state ArchiveWriter::new leaves: volume 1 holds the 56 header bytes
InitW ==
    /\ \E b \in Builds : volume_size = b[1] /\ overflow_checks = b[2]
    /\ sink = "ok"
    /\ probe = NoProbe
    /\ disk = <<NewVolume(Some(FileHeader))>>
    /\ pusher = 0
    /\ objects = <<>>
    /\ volume_counter = 1
    /\ byte_count = FileHeaderLen
    /\ ended = FALSE
    /\ wstate = "open"
    /\ wresult = "Ok"
    /\ log = <<>>
    /\ calls = <<>>
    /\ n_end = 0

\* the fields of w become the writer's fields
Store(w) ==
    /\ disk' = w.disk
    /\ pusher' = w.pusher
    /\ objects' = w.objects
    /\ volume_counter' = w.volume_counter
    /\ byte_count' = w.byte_count
    /\ ended' = w.ended
    /\ log' = w.log
    /\ wresult' = w.status

\* a panic unwinds into Drop, whose end() hits the same panic: the process aborts
\* ("aborted" stands for every way a panic ends the writer)
Unwind(w) == IF w.status = "panic" THEN "aborted" ELSE "open"

WriteObjectWith(P(_)) ==
    /\ wstate = "open"
    /\ Len(calls) < MaxObjects
    /\ \E src \in Sources : \E plan \in P(src) :
         Bind(write_object(Writer, src, plan), LAMBDA r :
             /\ Store(IF r.w.status = "panic" THEN [r.w EXCEPT !.ended = TRUE] ELSE r.w)
             /\ calls' = Append(calls, [r.call EXCEPT !.last = Len(r.w.log)])
             /\ wstate' = Unwind(r.w))
    /\ UNCHANGED << volume_size, overflow_checks, sink, probe, n_end >>
    /\ UNCHANGED rvars

\* write_object where reading the source succeeds
WriteObject == WriteObjectWith(PlansOk)

\* write_object where the source file cannot be opened or read
WriteObjectSrcFail == WriteObjectWith(PlansFail)

End ==
    /\ wstate = "open"
    /\ n_end < MaxEndCalls
    /\ Bind(end(Writer), LAMBDA w : Store(w) /\ wstate' = Unwind(w))
    /\ n_end' = n_end + 1
    /\ UNCHANGED << volume_size, overflow_checks, sink, probe, calls >>
    /\ UNCHANGED rvars

\* impl Drop for ArchiveWriter: self.end().unwrap()
Drop ==
    /\ wstate = "open"
    /\ Bind(end(Writer), LAMBDA w :
            Store(w) /\ wstate' = IF w.status = "Ok" THEN "dropped" ELSE "aborted")
    /\ UNCHANGED << volume_size, overflow_checks, sink, probe, calls, n_end >>
    /\ UNCHANGED rvars

NextW == WriteObject \/ End \/ Drop

\* the output directory stops taking writes, or stops taking new files
SinkFails ==
    /\ wstate = "open"
    /\ sink = "ok"
    /\ sink' \in {"write", "create"}
    /\ UNCHANGED << disk, pusher, objects, volume_counter, volume_size, byte_count, ended,
                    overflow_checks, probe, wstate, wresult, log, calls, n_end >>
    /\ UNCHANGED rvars

\* the output directory takes writes and new files again (space was freed)
SinkRecovers ==
    /\ wstate = "open"
    /\ sink # "ok"
    /\ sink' = "ok"
    /\ UNCHANGED << disk, pusher, objects, volume_counter, volume_size, byte_count, ended,
                    overflow_checks, probe, wstate, wresult, log, calls, n_end >>
    /\ UNCHANGED rvars


\* ----------------------------------------------------------------- reader

\* put as it would be if the bytes that do not fit the caller's buffer were lost
BufferPut_LosesRest(b, data) == b

\* Buffer::put and Buffer::drain_into on the live bytes of the Buffer
BufferPut(b, data) == b \o data
BufferDrain(b, n) ==
    LET size == Min(n, Len(b))
    IN  [out |-> SubSeq(b, 1, size), buf |-> SubSeq(b, size + 1, Len(b))]

\* Buffer::with_capacity: the Vec, the start of the live bytes, their number
with_capacity(capacity) ==
    [buf |-> [i \in 1..capacity |-> 0], offset |-> 0, len |-> 0,
     initial_capacity |-> capacity]

\* Deref for Buffer: the live bytes
deref(b) == SubSeq(b.buf, b.offset + 1, b.offset + b.len)

\* the bounds of a RangeBounds<usize>
Unbounded == [kind |-> "Unbounded", i |-> 0]
Included(i) == [kind |-> "Included", i |-> i]
Excluded(i) == [kind |-> "Excluded", i |-> i]

\* Buffer::wrap: offset and len from the two bounds, in usize. A subtraction
\* below zero panics in a build with overflow checks and wraps in one without;
\* the wrapped value 2^64 - k is written -k.
wrap(vec, range) ==
    LET offset == CASE range.start.kind = "Unbounded" -> 0
                    [] range.start.kind = "Included" -> range.start.i
                    [] range.start.kind = "Excluded" -> range.start.i + 1
        len == CASE range.end.kind = "Unbounded" -> Len(vec) - offset
                 [] range.end.kind = "Included" -> range.end.i - offset
                 [] range.end.kind = "Excluded" -> range.end.i - offset - 1
    IN  IF len < 0 /\ overflow_checks
        THEN [res |-> "panic"]
        ELSE [res |-> "Ok",
              b |-> [buf |-> vec, offset |-> offset, len |-> len,
                     initial_capacity |-> Len(vec)]]

\* Buffer::to_vec: self.buf[self.offset..self.offset + self.len].to_vec(); a
\* slice whose end is before its start or past the Vec panics
to_vec(b) ==
    IF b.len < 0 \/ b.offset + b.len > Len(b.buf)
    THEN [res |-> "panic"]
    ELSE [res |-> "Ok", vec |-> SubSeq(b.buf, b.offset + 1, b.offset + b.len)]

\* put as it would be if it moved the live bytes to the front whenever they
\* are not there
put_AlwaysCompacts(b, data, slack) ==
    LET room == Len(b.buf) - (b.offset + b.len)
        moved == b.offset > 0
        buf1 == IF moved
                THEN [i \in 1..Len(b.buf) |->
                        IF i <= b.len THEN b.buf[b.offset + i] ELSE b.buf[i]]
                ELSE b.buf
        capacity == IF moved THEN room + b.offset ELSE room
        offset == IF moved THEN 0 ELSE b.offset
        buf2 == IF Len(data) > capacity
                THEN buf1 \o [i \in 1..(Len(data) - capacity + slack) |-> 0]
                ELSE buf1
    IN  [b EXCEPT !.buf = [i \in 1..Len(buf2) |->
                             IF i > offset + b.len /\ i <= offset + b.len + Len(data)
                             THEN data[i - (offset + b.len)] ELSE buf2[i]],
                  !.offset = offset,
                  !.len = b.len + Len(data)]

\* Buffer::put; slack is how much more than asked for Vec::reserve allocates
put(b, data, slack) ==
    LET room == Len(b.buf) - (b.offset + b.len)
        moved == Len(data) > room
        buf1 == IF moved
                THEN [i \in 1..Len(b.buf) |->
                        IF i <= b.len THEN b.buf[b.offset + i] ELSE b.buf[i]]
                ELSE b.buf
        capacity == IF moved THEN room + b.offset ELSE room
        offset == IF moved THEN 0 ELSE b.offset
        buf2 == IF Len(data) > capacity
                THEN buf1 \o [i \in 1..(Len(data) - capacity + slack) |-> 0]
                ELSE buf1
    IN  [b EXCEPT !.buf = [i \in 1..Len(buf2) |->
                             IF i > offset + b.len /\ i <= offset + b.len + Len(data)
                             THEN data[i - (offset + b.len)] ELSE buf2[i]],
                  !.offset = offset,
                  !.len = b.len + Len(data)]

\* drain_into as it would be if it did not move the start of the live bytes
drain_into_KeepsOffset(b, n) ==
    LET size == Min(n, b.len)
    IN  [out |-> SubSeq(b.buf, b.offset + 1, b.offset + size), size |-> size,
         b |-> [b EXCEPT !.len = b.len - size]]

\* Buffer::drain_into a destination of n bytes
drain_into(b, n) ==
    LET size == Min(n, b.len)
    IN  [out |-> SubSeq(b.buf, b.offset + 1, b.offset + size), size |-> size,
         b |-> [b EXCEPT !.offset = b.offset + size, !.len = b.len - size]]

\* the frame that occupies exactly the n bytes at offset off, walking the
\* frames from frame i, which starts at offset start
RECURSIVE FrameAt(_, _, _, _, _)
FrameAt(frames, i, start, off, n) ==
    IF i > Len(frames) \/ start > off THEN [res |-> "garbage"]
    ELSE IF start < off THEN FrameAt(frames, i + 1, start + frames[i].len, off, n)
    ELSE IF frames[i].len = n THEN [res |-> "frame", frame |-> frames[i]]
    ELSE [res |-> "garbage"]

\* file.read_exact of n bytes at offset off: a whole frame, bytes that are no
\* frame ("garbage"), or too few bytes left ("eof")
ReadExact(vol, off, n) ==
    IF off + n > VolumeBytes(vol) THEN [res |-> "eof"]
    ELSE FrameAt(vol.frames, 1, IF vol.head = None THEN 0 ELSE FileHeaderLen, off, n)

\* pull as it would be if the tag did not depend on the key
PullOk_AnyKey(pl, ct) ==
    /\ ct.res = "frame"
    /\ ct.frame.sid.header = pl.sid.header
    /\ ct.frame.seq = pl.count

\* pull as it would be if the tag did not depend on the key and the header
PullOk_AnyStream(pl, ct) ==
    /\ ct.res = "frame"
    /\ ct.frame.seq = pl.count

\* SecretStream::pull: a ciphertext is accepted only by the stream it was pushed
\* on and only at the position it was pushed at
PullOk(pl, ct) ==
    /\ ct.res = "frame"
    /\ ct.frame.sid = pl.sid
    /\ ct.frame.seq = pl.count

\* SecretStream::new_push and new_pull: the stream a key and a header stand
\* for, the number of messages gone through it, and its direction
new_push(key, header) == [sid |-> [key |-> key, header |-> header], count |-> 0, dir |-> "Push"]
new_pull(header, key) == [sid |-> [key |-> key, header |-> header], count |-> 0, dir |-> "Pull"]

\* SecretStream::push of data
stream_push(st, data) ==
    IF st.dir # "Push" THEN [res |-> "Err:WrongStreamMode", st |-> st]
    ELSE [res |-> "Ok", st |-> [st EXCEPT !.count = st.count + 1],
          ct |-> Push(st.sid, st.count, data, Len(data))]

\* pull as it would be if a message pulled did not move the stream on
stream_pull_StaysPut(st, ct) ==
    IF ct.len < ADDITIONAL_BYTES \/ ~PullOk(st, [res |-> "frame", frame |-> ct])
    THEN [res |-> "Err:InvalidCiphertext", st |-> st]
    ELSE [res |-> "Ok", st |-> st, pt |-> ct.pt]

\* SecretStream::pull of a ciphertext
stream_pull(st, ct) ==
    IF ct.len < ADDITIONAL_BYTES \/ ~PullOk(st, [res |-> "frame", frame |-> ct])
    THEN [res |-> "Err:InvalidCiphertext", st |-> st]
    ELSE [res |-> "Ok", st |-> [st EXCEPT !.count = st.count + 1], pt |-> ct.pt]

\* the reader as one value, threaded through the calls of one handler
Reader ==
    [file |-> r_file, pos |-> r_pos, puller |-> puller,
     volume_counter |-> r_volume_counter, returned |-> returned]

\* open_next_volume as it would be if the offset of the old file were kept
open_next_volume_KeepsOffset(r) ==
    LET vc == (IF r.volume_counter = None THEN 1 ELSE r.volume_counter[1]) + 1
    IN  IF volume_size = None
        THEN [r |-> r, res |-> "Err:filename"]
        ELSE IF vc > Len(disk) \/ disk[vc] = Absent
        THEN [r |-> [r EXCEPT !.volume_counter = Some(vc)], res |-> "Err:volume"]
        ELSE [r |-> [r EXCEPT !.volume_counter = Some(vc), !.file = vc], res |-> "Ok"]

\* open_next_volume as it would be if it went on to the next file that exists
RECURSIVE NextPresent(_)
NextPresent(v) == IF v > Len(disk) \/ disk[v] # Absent THEN v ELSE NextPresent(v + 1)
open_next_volume_SkipsAbsent(r) ==
    LET vc == NextPresent((IF r.volume_counter = None THEN 1 ELSE r.volume_counter[1]) + 1)
    IN  IF volume_size = None
        THEN [r |-> r, res |-> "Err:filename"]
        ELSE IF vc > Len(disk)
        THEN [r |-> [r EXCEPT !.volume_counter = Some(vc)], res |-> "Err:volume"]
        ELSE [r |-> [r EXCEPT !.volume_counter = Some(vc), !.file = vc, !.pos = 0],
              res |-> "Ok"]

\* ArchiveReader::open_next_volume; raw_path ends in ".001" exactly when the
\* writer was given a volume_size
open_next_volume(r) ==
    LET vc == (IF r.volume_counter = None THEN 1 ELSE r.volume_counter[1]) + 1
    IN  IF volume_size = None
        THEN [r |-> r, res |-> "Err:filename"]
        ELSE IF vc > Len(disk) \/ disk[vc] = Absent
        THEN [r |-> [r EXCEPT !.volume_counter = Some(vc)], res |-> "Err:volume"]
        ELSE [r |-> [r EXCEPT !.volume_counter = Some(vc), !.file = vc, !.pos = 0],
              res |-> "Ok"]

RECURSIVE read_chunk(_)

\* read_chunk as it would be if the length field were decoded and the payload
\* read before the info frame is authenticated
read_chunk_LengthFirst(r) ==
    LET vol == disk[r.file]
        size == VolumeBytes(vol)
    IN
    With(ReadExact(vol, r.pos, InfoBytes + ADDITIONAL_BYTES), LAMBDA encrypted_info :
    IF encrypted_info.res = "eof" THEN [r |-> [r EXCEPT !.pos = size], res |-> "Err:eof"]
    ELSE
    With([r EXCEPT !.pos = r.pos + InfoBytes + ADDITIONAL_BYTES], LAMBDA r1 :
    IF encrypted_info.res # "frame" THEN [r |-> r1, res |-> "Err:auth"]
    ELSE
    LET info == encrypted_info.frame.pt
        chunk_type == ChunkTypeTryFrom(info[1])
        clen == BigEndianReadU32(SubSeq(info, 2, 5))
    IN
    With(ReadExact(vol, r1.pos, clen), LAMBDA ciphertext :
    IF ciphertext.res = "eof" THEN [r |-> [r1 EXCEPT !.pos = size], res |-> "Err:eof"]
    ELSE
    With([r1 EXCEPT !.pos = r1.pos + clen], LAMBDA r3 :
    IF ~PullOk(r3.puller, encrypted_info) THEN [r |-> r3, res |-> "Err:auth"]
    ELSE IF chunk_type = "Invalid"
    THEN [r |-> [r3 EXCEPT !.puller.count = r3.puller.count + 1], res |-> "panic"]
    ELSE IF ~PullOk([r3.puller EXCEPT !.count = @ + 1], ciphertext)
    THEN [r |-> [r3 EXCEPT !.puller.count = r3.puller.count + 1], res |-> "Err:auth"]
    ELSE
    With([r3 EXCEPT !.puller.count = r3.puller.count + 2], LAMBDA r4 :
    IF chunk_type = "VolumeEnd"
    THEN With(open_next_volume(r4), LAMBDA nxt :
            IF nxt.res = "Ok" THEN read_chunk(nxt.r) ELSE nxt)
    ELSE [r |-> [r4 EXCEPT !.returned =
                    Append(r4.returned, [kind |-> chunk_type, payload |-> ciphertext.frame.pt])],
          res |-> "Ok", kind |-> chunk_type, chunk |-> ciphertext.frame.pt])))))

\* read_chunk as it would be if the end of the file, met where an info frame
\* is due, were taken for the end of the archive
read_chunk_EofIsEnd(r) ==
    LET vol == disk[r.file]
        size == VolumeBytes(vol)
    IN
    With(ReadExact(vol, r.pos, InfoBytes + ADDITIONAL_BYTES), LAMBDA encrypted_info :
    IF encrypted_info.res = "eof"
    THEN [r |-> [r EXCEPT !.pos = size], res |-> "Ok", kind |-> "End",
          chunk |-> ManifestToJson(<<>>)]
    ELSE
    With([r EXCEPT !.pos = r.pos + InfoBytes + ADDITIONAL_BYTES], LAMBDA r1 :
    IF ~PullOk(r1.puller, encrypted_info) THEN [r |-> r1, res |-> "Err:auth"]
    ELSE
    LET info == encrypted_info.frame.pt
        chunk_type == ChunkTypeTryFrom(info[1])
        clen == BigEndianReadU32(SubSeq(info, 2, 5))
    IN
    With([r1 EXCEPT !.puller.count = r1.puller.count + 1], LAMBDA r2 :
    IF chunk_type = "Invalid" THEN [r |-> r2, res |-> "panic"]
    ELSE
    With(ReadExact(vol, r2.pos, clen), LAMBDA ciphertext :
    IF ciphertext.res = "eof" THEN [r |-> [r2 EXCEPT !.pos = size], res |-> "Err:eof"]
    ELSE
    With([r2 EXCEPT !.pos = r2.pos + clen], LAMBDA r3 :
    IF ~PullOk(r3.puller, ciphertext) THEN [r |-> r3, res |-> "Err:auth"]
    ELSE
    With([r3 EXCEPT !.puller.count = r3.puller.count + 1], LAMBDA r4 :
    IF chunk_type = "VolumeEnd"
    THEN With(open_next_volume(r4), LAMBDA nxt :
            IF nxt.res = "Ok" THEN read_chunk(nxt.r) ELSE nxt)
    ELSE [r |-> [r4 EXCEPT !.returned =
                    Append(r4.returned, [kind |-> chunk_type, payload |-> ciphertext.frame.pt])],
          res |-> "Ok", kind |-> chunk_type, chunk |-> ciphertext.frame.pt]))))))

\* ArchiveReader::read_chunk
read_chunk(r) ==
    LET vol == disk[r.file]
        size == VolumeBytes(vol)
    IN
    With(ReadExact(vol, r.pos, InfoBytes + ADDITIONAL_BYTES), LAMBDA encrypted_info :
    IF encrypted_info.res = "eof" THEN [r |-> [r EXCEPT !.pos = size], res |-> "Err:eof"]
    ELSE
    With([r EXCEPT !.pos = r.pos + InfoBytes + ADDITIONAL_BYTES], LAMBDA r1 :
    IF ~PullOk(r1.puller, encrypted_info) THEN [r |-> r1, res |-> "Err:auth"]
    ELSE
    LET info == encrypted_info.frame.pt
        chunk_type == ChunkTypeTryFrom(info[1])
        clen == BigEndianReadU32(SubSeq(info, 2, 5))
    IN
    With([r1 EXCEPT !.puller.count = r1.puller.count + 1], LAMBDA r2 :
    IF chunk_type = "Invalid" THEN [r |-> r2, res |-> "panic"]
    ELSE
    With(ReadExact(vol, r2.pos, clen), LAMBDA ciphertext :
    IF ciphertext.res = "eof" THEN [r |-> [r2 EXCEPT !.pos = size], res |-> "Err:eof"]
    ELSE
    With([r2 EXCEPT !.pos = r2.pos + clen], LAMBDA r3 :
    IF ~PullOk(r3.puller, ciphertext) THEN [r |-> r3, res |-> "Err:auth"]
    ELSE
    With([r3 EXCEPT !.puller.count = r3.puller.count + 1], LAMBDA r4 :
    IF chunk_type = "VolumeEnd"
    THEN With(open_next_volume(r4), LAMBDA nxt :
            IF nxt.res = "Ok" THEN read_chunk(nxt.r) ELSE nxt)
    ELSE [r |-> [r4 EXCEPT !.returned =
                    Append(r4.returned, [kind |-> chunk_type, payload |-> ciphertext.frame.pt])],
          res |-> "Ok", kind |-> chunk_type, chunk |-> ciphertext.frame.pt]))))))

StoreReader(r) ==
    /\ r_file' = r.file
    /\ r_pos' = r.pos
    /\ puller' = r.puller
    /\ r_volume_counter' = r.volume_counter
    /\ returned' = r.returned

Failure(res) == res \notin {"Ok", "None", "Some", "Err:interrupted"}
FirstFailure(res) == IF rfirst = "none" /\ Failure(res) THEN res ELSE rfirst
rfailed == rfirst # "none"

\* ArchiveReader::new on the first file of a finished archive
ArchiveReaderNew(password) ==
    /\ wstate # "open"
    /\ rstate = "none"
    /\ LET h == ReadHeader(disk[1].head[1])
           key == pwhash(password, h.salt, h.opslimit, h.memlimit)
       IN  puller' = [sid |-> [key |-> key, header |-> h.header], count |-> 0]
    /\ rstate' = "open"
    /\ r_file' = 1
    /\ r_pos' = FileHeaderLen
    /\ rresult' = "Ok"
    /\ UNCHANGED << tamper, manifest, r_volume_counter, oreader, returned, robjs,
                    rfirst, misused, r_zero, run >>
    /\ UNCHANGED wvars

\* the reader is given the writer's password
ReaderNew == ArchiveReaderNew(Password)

\* the reader of a small archive is given another password
WrongPasswords == {"wrong", ""}
ReaderNewWrongPassword ==
    /\ Len(calls) <= MaxTamperObjects
    /\ \E password \in WrongPasswords : ArchiveReaderNew(password)

\* read_object as it would be if it left self.manifest alone
ManifestAfter_Kept(c, m) == m

\* read_object: self.manifest after it has read chunk c
ManifestAfter(c, m) ==
    IF c.res = "Ok" /\ c.kind = "End" THEN Some(ManifestFromJson(c.chunk)) ELSE m

\* ArchiveReader::read_object; a live ObjectReader is dropped first
ReadObject ==
    /\ rstate = "open"
    /\ Bind(read_chunk(Reader), LAMBDA c :
       LET isEnd == c.res = "Ok" /\ c.kind = "End"
           isHeader == c.res = "Ok" /\ c.kind = "Header"
           \* serde_json::from_slice(..).unwrap() on what is no ObjectInfo
           panics == c.res = "panic" \/ (c.res = "Ok" /\ c.kind \in {"Data", "Epilogue"})
           info == InfoFromJson(c.chunk)
       IN  /\ StoreReader(c.r)
           /\ manifest' = ManifestAfter(c, manifest)
           /\ oreader' = IF isHeader
                         THEN Some([object_info |-> info, buf |-> <<>>,
                                    object_epilogue |-> None])
                         ELSE None
           /\ robjs' = IF isHeader
                       THEN Append(robjs, [info |-> info, data |-> <<>>, epilogue |-> None])
                       ELSE robjs
           /\ rresult' = IF panics THEN "panic"
                         ELSE IF isEnd THEN "None"
                         ELSE IF isHeader THEN "Some" ELSE c.res
           /\ rstate' = IF panics THEN "panicked" ELSE "open"
           /\ rfirst' = FirstFailure(rresult'))
    /\ r_zero' = FALSE
    /\ UNCHANGED run
    /\ misused' = (\/ misused
                   \/ manifest # None
                   \/ /\ oreader # None
                      /\ oreader[1].object_info.object_type = "file"
                      /\ oreader[1].object_epilogue = None)
    /\ UNCHANGED tamper
    /\ UNCHANGED wvars

DstLens == 0..ReadBufLen

\* ObjectReader::read_data
read_data(r) ==
    With(read_chunk(r), LAMBDA c :
        IF c.res # "Ok" THEN [r |-> c.r, res |-> c.res]
        ELSE IF c.kind = "Data"
        THEN [r |-> c.r, res |-> "Ok", data |-> Some(Decompress(c.chunk))]
        ELSE IF c.kind = "Epilogue"
        THEN [r |-> c.r, res |-> "Ok", data |-> None, epilogue |-> EpilogueFromJson(c.chunk)]
        ELSE [r |-> c.r, res |-> "Err:framing"])

\* read as it would be if a Data chunk that decompresses to nothing were
\* reported as Ok(0)
read_ZeroOnEmptyData(o, r, n) ==
    IF n = 0 \/ o.object_epilogue # None
    THEN [bytes |-> <<>>, o |-> o, r |-> r, res |-> "Ok"]
    ELSE IF o.buf # <<>>
    THEN With(BufferDrain(o.buf, n), LAMBDA drained :
            [bytes |-> drained.out, o |-> [o EXCEPT !.buf = drained.buf], r |-> r,
             res |-> "Ok"])
    ELSE
    With(read_data(r), LAMBDA d :
    IF d.res # "Ok" THEN [bytes |-> <<>>, o |-> o, r |-> d.r, res |-> d.res]
    ELSE IF d.data = None
    THEN [bytes |-> <<>>, o |-> [o EXCEPT !.object_epilogue = Some(d.epilogue)], r |-> d.r,
          res |-> "Ok"]
    ELSE LET data == d.data[1]
             size == Min(n, Len(data))
         IN  [bytes |-> SubSeq(data, 1, size),
              o |-> [o EXCEPT !.buf = BufferPut(o.buf, SubSeq(data, size + 1, Len(data)))],
              r |-> d.r, res |-> "Ok"])

\* read as it would be if it pulled a chunk without looking at the Buffer
read_IgnoresBuffer(o, r, n) ==
    IF n = 0 \/ o.object_epilogue # None
    THEN [bytes |-> <<>>, o |-> o, r |-> r, res |-> "Ok"]
    ELSE
    With(read_data(r), LAMBDA d :
    IF d.res # "Ok" THEN [bytes |-> <<>>, o |-> o, r |-> d.r, res |-> d.res]
    ELSE IF d.data = None
    THEN [bytes |-> <<>>, o |-> [o EXCEPT !.object_epilogue = Some(d.epilogue)], r |-> d.r,
          res |-> "Ok"]
    ELSE IF d.data[1] = <<>>
    THEN [bytes |-> <<>>, o |-> o, r |-> d.r, res |-> "Err:interrupted"]
    ELSE LET data == d.data[1]
             size == Min(n, Len(data))
         IN  [bytes |-> SubSeq(data, 1, size),
              o |-> [o EXCEPT !.buf = BufferPut(o.buf, SubSeq(data, size + 1, Len(data)))],
              r |-> d.r, res |-> "Ok"])

\* read as it would be if a Data chunk that decompresses to nothing were left
\* in the archive, to be read again by the next call
read_EmptyDataNotConsumed(o, r, n) ==
    IF n = 0 \/ o.object_epilogue # None
    THEN [bytes |-> <<>>, o |-> o, r |-> r, res |-> "Ok"]
    ELSE IF o.buf # <<>>
    THEN With(BufferDrain(o.buf, n), LAMBDA drained :
            [bytes |-> drained.out, o |-> [o EXCEPT !.buf = drained.buf], r |-> r,
             res |-> "Ok"])
    ELSE
    With(read_data(r), LAMBDA d :
    IF d.res # "Ok" THEN [bytes |-> <<>>, o |-> o, r |-> d.r, res |-> d.res]
    ELSE IF d.data = None
    THEN [bytes |-> <<>>, o |-> [o EXCEPT !.object_epilogue = Some(d.epilogue)], r |-> d.r,
          res |-> "Ok"]
    ELSE IF d.data[1] = <<>>
    THEN [bytes |-> <<>>, o |-> o, r |-> r, res |-> "Err:interrupted"]
    ELSE LET data == d.data[1]
             size == Min(n, Len(data))
         IN  [bytes |-> SubSeq(data, 1, size),
              o |-> [o EXCEPT !.buf = BufferPut(o.buf, SubSeq(data, size + 1, Len(data)))],
              r |-> d.r, res |-> "Ok"])

\* impl Read for ObjectReader, on a destination of n bytes: what the call
\* delivers, the ObjectReader and the ArchiveReader after it, and its result
read(o, r, n) ==
    IF n = 0 \/ o.object_epilogue # None
    THEN [bytes |-> <<>>, o |-> o, r |-> r, res |-> "Ok"]
    ELSE IF o.buf # <<>>
    THEN With(BufferDrain(o.buf, n), LAMBDA drained :
            [bytes |-> drained.out, o |-> [o EXCEPT !.buf = drained.buf], r |-> r,
             res |-> "Ok"])
    ELSE
    With(read_data(r), LAMBDA d :
    IF d.res # "Ok" THEN [bytes |-> <<>>, o |-> o, r |-> d.r, res |-> d.res]
    ELSE IF d.data = None
    THEN [bytes |-> <<>>, o |-> [o EXCEPT !.object_epilogue = Some(d.epilogue)], r |-> d.r,
          res |-> "Ok"]
    ELSE IF d.data[1] = <<>>
    THEN [bytes |-> <<>>, o |-> o, r |-> d.r, res |-> "Err:interrupted"]
    ELSE LET data == d.data[1]
             size == Min(n, Len(data))
         IN  [bytes |-> SubSeq(data, 1, size),
              o |-> [o EXCEPT !.buf = BufferPut(o.buf, SubSeq(data, size + 1, Len(data)))],
              r |-> d.r, res |-> "Ok"])

Read ==
    /\ rstate = "open"
    /\ oreader # None
    /\ \E n \in DstLens :
        Bind(read(oreader[1], Reader, n), LAMBDA out :
            /\ StoreReader(out.r)
            /\ oreader' = Some(out.o)
            /\ robjs' = [robjs EXCEPT ![Len(robjs)].data = @ \o out.bytes,
                                      ![Len(robjs)].epilogue = out.o.object_epilogue]
            /\ rresult' = out.res
            /\ rstate' = IF out.res = "panic" THEN "panicked" ELSE "open"
            /\ rfirst' = FirstFailure(out.res)
            /\ r_zero' = (n # 0 /\ out.res = "Ok" /\ out.bytes = <<>>)
            /\ misused' = (misused \/ (n # 0 /\ oreader[1].object_info.object_type = "directory")))
    /\ UNCHANGED << tamper, manifest, run >>
    /\ UNCHANGED wvars

NextR == ReaderNew \/ ReadObject \/ Read

\* a caller that drains a file object: read again, on Interrupted too, until a
\* read into a non-empty destination returns Ok(0)
DrainRead ==
    /\ oreader # None
    /\ oreader[1].object_info.object_type = "file"
    /\ ~r_zero
    /\ ~Failure(rresult)
    /\ Read

\* the same caller asks for the next object once the file object it had is
\* drained, until read_object returns None
NextObject ==
    /\ manifest = None
    /\ ~Failure(rresult)
    /\ IF oreader = None THEN TRUE
       ELSE oreader[1].object_info.object_type = "directory" \/ r_zero
    /\ ReadObject

\* std::io::copy from an ObjectReader into a HashingWriter: reads into its
\* buffer until a read returns Ok(0), reading again on Interrupted; acc is what
\* the writer has been given
RECURSIVE io_copy(_, _, _)
io_copy(o, r, acc) ==
    With(read(o, r, ReadBufLen), LAMBDA out :
        IF out.res = "Err:interrupted" THEN io_copy(out.o, out.r, acc)
        ELSE IF out.res # "Ok" THEN [res |-> out.res, o |-> out.o, r |-> out.r, bytes |-> acc]
        ELSE IF out.bytes = <<>>
        THEN [res |-> "Ok", o |-> out.o, r |-> out.r, bytes |-> acc]
        ELSE io_copy(out.o, out.r, acc \o out.bytes))

\* HashingWriter::get_hash after the bytes written through it
get_hash(bytes) == HasherFinalize(HasherUpdate(HasherNew, bytes))

\* the loop of decrypt_file and of test_file over read_object: directories are
\* passed over, a file is copied out and its hash compared with its epilogue's;
\* done lists the objects dealt with so far
RECURSIVE ObjectLoop(_, _)
ObjectLoop(r, done) ==
    With(read_chunk(r), LAMBDA c :
    IF c.res # "Ok" THEN [res |-> c.res, done |-> done]
    ELSE IF c.kind = "End" THEN [res |-> "Ok", done |-> done]
    ELSE IF c.kind # "Header" THEN [res |-> "panic", done |-> done]
    ELSE
    With(InfoFromJson(c.chunk), LAMBDA info :
    IF info.object_type = "directory"
    THEN ObjectLoop(c.r, Append(done, [name |-> info.name, verdict |-> "directory",
                                       bytes |-> <<>>]))
    ELSE
    With(io_copy([object_info |-> info, buf |-> <<>>, object_epilogue |-> None], c.r, <<>>),
         LAMBDA cp :
    IF cp.res # "Ok" THEN [res |-> cp.res, done |-> done]
    ELSE IF to_hex(get_hash(cp.bytes)) # cp.o.object_epilogue[1].hash
    THEN [res |-> "Err:hash",
          done |-> Append(done, [name |-> info.name, verdict |-> "mismatch",
                                 bytes |-> cp.bytes])]
    ELSE ObjectLoop(cp.r, Append(done, [name |-> info.name, verdict |-> "ok",
                                        bytes |-> cp.bytes])))))

\* ArchiveReader::new as decrypt_file and test_file call it
OpenArchive(password) ==
    LET h == ReadHeader(disk[1].head[1])
    IN  [file |-> 1, pos |-> FileHeaderLen,
         puller |-> [sid |-> [key |-> pwhash(password, h.salt, h.opslimit, h.memlimit),
                              header |-> h.header],
                     count |-> 0],
         volume_counter |-> None, returned |-> <<>>]

\* secrets decrypt: the whole run on a finished archive
DecryptFile ==
    /\ wstate # "open"
    /\ rstate = "none"
    /\ run.res = "idle"
    /\ run' = [cmd |-> "decrypt"] @@ ObjectLoop(OpenArchive(Password), <<>>)
    /\ UNCHANGED << tamper, rstate, r_file, r_pos, puller, manifest, r_volume_counter,
                    oreader, rresult, returned, robjs, rfirst, misused, r_zero >>
    /\ UNCHANGED wvars

\* secrets test: the whole run on a finished archive
TestFile ==
    /\ wstate # "open"
    /\ rstate = "none"
    /\ run.res = "idle"
    /\ run' = [cmd |-> "test"] @@ ObjectLoop(OpenArchive(Password), <<>>)
    /\ UNCHANGED << tamper, rstate, r_file, r_pos, puller, manifest, r_volume_counter,
                    oreader, rresult, returned, robjs, rfirst, misused, r_zero >>
    /\ UNCHANGED wvars

\* ------------------------------------------------- the archive in other hands
NoTamper == [op |-> "none", at |-> 0]

SwapAt(fs, i) == [fs EXCEPT ![i] = fs[i + 1], ![i + 1] = fs[i]]
DropAt(fs, i) == SubSeq(fs, 1, i - 1) \o SubSeq(fs, i + 1, Len(fs))
ReplayAt(fs, i) == SubSeq(fs, 1, i) \o <<fs[i]>> \o SubSeq(fs, i + 1, Len(fs))

\* how many frames the archive holds before volume v
RECURSIVE FramesBefore(_)
FramesBefore(v) == IF v = 1 THEN 0 ELSE Len(disk[v - 1].frames) + FramesBefore(v - 1)

\* before it is read, two adjacent frames of a small finished archive are
\* swapped, one frame is dropped, or one frame is written twice in a row;
\* "at" is the stream position of the first frame that is no longer in place
Tamper ==
    /\ wstate = "dropped"
    /\ rstate = "none"
    /\ tamper.op = "none"
    /\ Len(calls) <= MaxTamperObjects
    /\ \E v \in 1..Len(disk) : \E i \in 1..Len(disk[v].frames) :
         \/ /\ i < Len(disk[v].frames)
            /\ disk' = [disk EXCEPT ![v].frames = SwapAt(@, i)]
            /\ tamper' = [op |-> "swap", at |-> FramesBefore(v) + i - 1]
         \/ /\ disk' = [disk EXCEPT ![v].frames = DropAt(@, i)]
            /\ tamper' = [op |-> "drop", at |-> FramesBefore(v) + i - 1]
         \/ /\ disk' = [disk EXCEPT ![v].frames = ReplayAt(@, i)]
            /\ tamper' = [op |-> "replay", at |-> FramesBefore(v) + i]
    /\ UNCHANGED << pusher, objects, volume_counter, volume_size, byte_count, ended,
                    overflow_checks, sink, probe, wstate, wresult, log, calls, n_end >>
    /\ UNCHANGED << rstate, r_file, r_pos, puller, manifest, r_volume_counter, oreader,
                    rresult, returned, robjs, rfirst, misused, r_zero, run >>

\* a ciphertext of the same length that no stream position accepts; pt is what
\* its bytes would decode to if the tag were not checked
Forged == 0 - 1
Corrupted(f, n) ==
    [sid |-> f.sid, seq |-> Forged, pt |-> <<f.pt[1]>> \o BigEndianWriteU32(n), len |-> f.len]

\* the lengths a changed info frame is made to announce, for a chunk whose
\* ciphertext_length is clen
ForgedLengths(clen) == {0, clen + 1, clen - 1}

\* before a small archive is read, the ciphertext of one info frame is changed
\* (info frames are the odd frames of a volume); "at" is its stream position
CorruptInfo ==
    /\ wstate = "dropped"
    /\ rstate = "none"
    /\ tamper.op = "none"
    /\ Len(calls) <= MaxTamperObjects
    /\ \E v \in 1..Len(disk) : \E i \in 1..Len(disk[v].frames) :
         /\ i % 2 = 1
         /\ \E n \in ForgedLengths(disk[v].frames[i + 1].len) :
              disk' = [disk EXCEPT ![v].frames[i] = Corrupted(@, n)]
         /\ tamper' = [op |-> "corrupt", at |-> FramesBefore(v) + i - 1]
    /\ UNCHANGED << pusher, objects, volume_counter, volume_size, byte_count, ended,
                    overflow_checks, sink, probe, wstate, wresult, log, calls, n_end >>
    /\ UNCHANGED << rstate, r_file, r_pos, puller, manifest, r_volume_counter, oreader,
                    rresult, returned, robjs, rfirst, misused, r_zero, run >>

\* the first n bytes of frame f, n < f.len: no ciphertext any position accepts
Stub(f, n) == [sid |-> f.sid, seq |-> Forged, pt |-> f.pt, len |-> n]

\* how much of the first frame lost is left behind: nothing, one byte, or all
\* but one byte
StubLens(f) == {0, 1, f.len - 1}

\* the first i frames of a file hold a whole End or VolumeEnd chunk
HoldsTerminal(fs, i) ==
    \E j \in 1..(i - 1) :
        j % 2 = 1 /\ ChunkTypeTryFrom(fs[j].pt[1]) \in {"End", "VolumeEnd"}

\* before a small archive is read, one of its files is cut short, at a frame
\* boundary or inside a frame, before its first End or VolumeEnd chunk is
\* whole; "at" is the stream position of the first frame not whole
Truncate ==
    /\ wstate = "dropped"
    /\ rstate = "none"
    /\ tamper.op = "none"
    /\ Len(calls) <= MaxTamperObjects
    /\ \E v \in 1..Len(disk) : \E i \in 0..(Len(disk[v].frames) - 1) :
         \E n \in StubLens(disk[v].frames[i + 1]) :
            /\ ~HoldsTerminal(disk[v].frames, i)
            /\ disk' = [disk EXCEPT ![v].frames =
                           SubSeq(@, 1, i)
                           \o (IF n = 0 THEN <<>> ELSE <<Stub(disk[v].frames[i + 1], n)>>)]
            /\ tamper' = [op |-> "truncate", at |-> FramesBefore(v) + i]
    /\ UNCHANGED << pusher, objects, volume_counter, volume_size, byte_count, ended,
                    overflow_checks, sink, probe, wstate, wresult, log, calls, n_end >>
    /\ UNCHANGED << rstate, r_file, r_pos, puller, manifest, r_volume_counter, oreader,
                    rresult, returned, robjs, rfirst, misused, r_zero, run >>

\* a second archive written with the same password: ArchiveWriter::new draws
\* its own salt and init_push its own header
\* a hash other than the one given
WrongHash(hash) == IF hash = to_hex(<<0>>) THEN to_hex(<<1>>) ELSE to_hex(<<0>>)

\* an End chunk lies in the stream before frame i of volume v
EndBefore(v, i) ==
    \E w \in 1..v : \E j \in 1..Len(disk[w].frames) :
        /\ w < v \/ j < i
        /\ j % 2 = 1
        /\ ChunkTypeTryFrom(disk[w].frames[j].pt[1]) = "End"

\* before it is read, someone who holds the key re-encrypts one Epilogue of a
\* finished archive, one that lies before End, with another hash in it (info
\* frames are the odd frames of a volume, the payload follows); "at" is the
\* stream position of the payload
ForgeEpilogue ==
    /\ wstate = "dropped"
    /\ rstate = "none"
    /\ run.res = "idle"
    /\ tamper.op = "none"
    /\ \E v \in 1..Len(disk) : \E i \in 1..Len(disk[v].frames) :
         /\ i % 2 = 1
         /\ ChunkTypeTryFrom(disk[v].frames[i].pt[1]) = "Epilogue"
         /\ ~EndBefore(v, i)
         /\ disk' = [disk EXCEPT ![v].frames[i + 1].pt.hash = WrongHash(@)]
         /\ tamper' = [op |-> "forge", at |-> FramesBefore(v) + i]
    /\ UNCHANGED << pusher, objects, volume_counter, volume_size, byte_count, ended,
                    overflow_checks, sink, probe, wstate, wresult, log, calls, n_end >>
    /\ UNCHANGED << rstate, r_file, r_pos, puller, manifest, r_volume_counter, oreader,
                    rresult, returned, robjs, rfirst, misused, r_zero, run >>

SidB == [key |-> pwhash(Password, SaltB, OPSLIMIT, MEMLIMIT), header |-> StreamHeaderB]
FileHeaderB == WriteHeader(SaltB, OPSLIMIT, MEMLIMIT, StreamHeaderB)

\* the volume archive B holds where this archive holds vol, B being written by
\* the same calls
OtherArchive(vol) ==
    [head |-> IF vol.head = None THEN None ELSE Some(FileHeaderB),
     frames |-> [i \in 1..Len(vol.frames) |-> [vol.frames[i] EXCEPT !.sid = SidB]]]

\* before the archive is read, its volume 002 is replaced by a volume of
\* archive B that ends in a VolumeEnd; "at" is the stream position of the
\* first frame after volume 001
Splice ==
    /\ wstate = "dropped"
    /\ rstate = "none"
    /\ tamper.op = "none"
    /\ Len(calls) <= MaxTamperObjects
    /\ Len(disk) >= 2
    /\ \E k \in 1..(Len(disk) - 1) :
         disk' = [disk EXCEPT ![2] = OtherArchive(disk[k])]
    /\ tamper' = [op |-> "splice", at |-> FramesBefore(2)]
    /\ UNCHANGED << pusher, objects, volume_counter, volume_size, byte_count, ended,
                    overflow_checks, sink, probe, wstate, wresult, log, calls, n_end >>
    /\ UNCHANGED << rstate, r_file, r_pos, puller, manifest, r_volume_counter, oreader,
                    rresult, returned, robjs, rfirst, misused, r_zero, run >>

\* before the archive is read, a volume that is neither the first nor the
\* last is removed; "at" is the stream position of its first frame
LoseVolume ==
    /\ wstate = "dropped"
    /\ rstate = "none"
    /\ tamper.op = "none"
    /\ Len(calls) <= MaxTamperObjects
    /\ \E v \in 2..(Len(disk) - 1) :
         /\ disk' = [disk EXCEPT ![v] = Absent]
         /\ tamper' = [op |-> "lose", at |-> FramesBefore(v)]
    /\ UNCHANGED << pusher, objects, volume_counter, volume_size, byte_count, ended,
                    overflow_checks, sink, probe, wstate, wresult, log, calls, n_end >>
    /\ UNCHANGED << rstate, r_file, r_pos, puller, manifest, r_volume_counter, oreader,
                    rresult, returned, robjs, rfirst, misused, r_zero, run >>

\* before the archive is read, a later volume is put in the place of a volume
\* that is neither the first nor the last
MisplaceVolume ==
    /\ wstate = "dropped"
    /\ rstate = "none"
    /\ tamper.op = "none"
    /\ Len(calls) <= MaxTamperObjects
    /\ \E v \in 2..(Len(disk) - 1) : \E u \in (v + 1)..Len(disk) :
         /\ disk' = [disk EXCEPT ![v] = disk[u]]
         /\ tamper' = [op |-> "misplace", at |-> FramesBefore(v)]
    /\ UNCHANGED << pusher, objects, volume_counter, volume_size, byte_count, ended,
                    overflow_checks, sink, probe, wstate, wresult, log, calls, n_end >>
    /\ UNCHANGED << rstate, r_file, r_pos, puller, manifest, r_volume_counter, oreader,
                    rresult, returned, robjs, rfirst, misused, r_zero, run >>

InitR ==
    /\ tamper = NoTamper
    /\ rstate = "none"
    /\ r_file = 0
    /\ r_pos = 0
    /\ puller = [sid |-> WriterSid, count |-> 0]
    /\ manifest = None
    /\ r_volume_counter = None
    /\ oreader = None
    /\ rresult = "Ok"
    /\ returned = <<>>
    /\ robjs = <<>>
    /\ rfirst = "none"
    /\ misused = FALSE
    /\ r_zero = FALSE
    /\ run = NoRun

vars == << wvars, rvars >>

\* a new writer, no reader yet
Init == InitW /\ InitR

\* the writer alone
Next == NextW
Spec == Init /\ [][Next]_vars

\* a writer, then a reader on the archive it left
NextRead == NextW \/ NextR
SpecRead == Init /\ [][NextRead]_vars

\* a writer, then a reader whose caller keeps calling: every object is asked
\* for, every file object is read until it is drained
NextDrain == NextW \/ ReaderNew \/ NextObject \/ DrainRead
SpecDrain ==
    Init /\ [][NextDrain]_vars /\ WF_vars(NextObject) /\ WF_vars(DrainRead)

\* the payload lengths probed: short ones, those around a carry between the
\* bytes of the field, and those around 2^32 - 17, where len + 17 stops fitting
PayloadLens ==
    {Wide(0, lo) : lo \in 0..15}
    \cup {Wide(hi, lo) : hi \in {0, 1, 255, 256, 32767}, lo \in {255, 256, 65518, 65519, 65535}}
    \cup {Wide(65535, lo) : lo \in 65510..65535}
    \cup {Wide(hi, lo) : hi \in {65536, 65537, 131071}, lo \in {0, 1, 65518, 65519, 65535}}

InitLength ==
    /\ InitR
    /\ volume_size = None /\ overflow_checks = FALSE /\ sink = "ok"
    /\ disk = <<NewVolume(Some(FileHeader))>>
    /\ pusher = 0 /\ objects = <<>> /\ volume_counter = 1 /\ byte_count = FileHeaderLen
    /\ ended = FALSE /\ wstate = "open" /\ wresult = "Ok"
    /\ log = <<>> /\ calls = <<>> /\ n_end = 0
    /\ \E len \in PayloadLens : probe = [res |-> "len", len |-> len]

\* write_chunk_unchecked computes and writes the length field
ProbeWrite ==
    /\ probe.res = "len"
    /\ probe' = [len |-> probe.len] @@ LengthField(probe.len)
    /\ UNCHANGED << disk, pusher, objects, volume_counter, volume_size, byte_count, ended,
                    overflow_checks, sink, wstate, wresult, log, calls, n_end >>
    /\ UNCHANGED rvars

\* read_chunk decodes the field and sizes its payload read
ProbeRead ==
    /\ probe.res = "written"
    /\ probe' = [res |-> "read", len |-> probe.len, field |-> probe.field,
                 read |-> PayloadRead(probe.field)]
    /\ UNCHANGED << disk, pusher, objects, volume_counter, volume_size, byte_count, ended,
                    overflow_checks, sink, wstate, wresult, log, calls, n_end >>
    /\ UNCHANGED rvars

\* the length field alone, from write_chunk_unchecked to read_chunk
NextLength == ProbeWrite \/ ProbeRead
SpecLength == InitLength /\ [][NextLength]_vars

\* no archive at all: a state in which single functions are probed
InitPure ==
    /\ InitR
    /\ volume_size = None /\ overflow_checks = FALSE /\ sink = "ok"
    /\ disk = <<NewVolume(Some(FileHeader))>>
    /\ pusher = 0 /\ objects = <<>> /\ volume_counter = 1 /\ byte_count = FileHeaderLen
    /\ ended = FALSE /\ wstate = "open" /\ wresult = "Ok"
    /\ log = <<>> /\ calls = <<>> /\ n_end = 0

\* the file names given as path, some with ".001" in them
BaseNames ==
    { <<"a">>, <<"a", ".", "0", "0", "1">>, <<".", "0", "0", "1", "b">>,
      <<"a", ".", "0", "0", "2">>, <<"v", ".", "1">>, <<"0", "0", "1">> }

\* the volume numbers probed: the first ones and those around a new digit
VolumeNumbers == (1..12) \cup (98..101) \cup (998..1002) \cup (9999..10001)

\* the file the reader is opened on: the first volume, the second, or a file
\* with the name given to the writer
OpenedOn == {"first", "second", "path"}

InitNames ==
    /\ InitPure
    /\ \E base \in BaseNames : \E n \in VolumeNumbers : \E on \in OpenedOn :
         probe = [res |-> "path", base |-> base, n |-> n, on |-> on]

\* the writer names its first volume (ArchiveWriter::new) and, rotating from
\* volume n - 1, volume n (write_chunk)
ProbeWriterName ==
    /\ probe.res = "path"
    /\ probe' = [probe EXCEPT !.res = "named"] @@
                [first |-> get_real_path(probe.base, 1),
                 wname |-> get_real_path(probe.base, probe.n)]
    /\ UNCHANGED << disk, pusher, objects, volume_counter, volume_size, byte_count, ended,
                    overflow_checks, sink, wstate, wresult, log, calls, n_end >>
    /\ UNCHANGED rvars

\* the reader, opened on a file and having read the volumes up to n - 1,
\* meets a VolumeEnd: open_next_volume
ProbeReaderName ==
    /\ probe.res = "named"
    /\ probe.n >= 2
    /\ LET raw == CASE probe.on = "first" -> probe.first
                    [] probe.on = "second" -> get_real_path(probe.base, 2)
                    [] OTHER -> probe.base
           vc == IF probe.n = 2 THEN None ELSE Some(probe.n - 1)
       IN  probe' = [probe EXCEPT !.res = "opened"] @@
                    [raw |-> raw, next |-> NextVolumeName(raw, vc)]
    /\ UNCHANGED << disk, pusher, objects, volume_counter, volume_size, byte_count, ended,
                    overflow_checks, sink, wstate, wresult, log, calls, n_end >>
    /\ UNCHANGED rvars

\* volume names alone, from the writer's rotation to open_next_volume
NextNames == ProbeWriterName \/ ProbeReaderName
SpecNames == InitNames /\ [][NextNames]_vars

\* the capacities a Buffer is made with, what Vec::reserve may add beyond what
\* it was asked for, and the destinations drained into
Capacities == 0..2
ReserveSlack == {0, 2}
DrainLens == 0..3

InitBuffer ==
    /\ InitPure
    /\ \E capacity \in Capacities :
         probe = [res |-> "buffer", b |-> with_capacity(capacity), put |-> <<>>,
                  got |-> <<>>, last |-> [op |-> "new"]]

\* buffer.put(data)
BufferPutCall ==
    /\ probe.res = "buffer"
    /\ \E data \in SeqsUpTo(3) : \E slack \in ReserveSlack :
         /\ Len(probe.put) + Len(data) <= MaxPut
         /\ probe' = [probe EXCEPT !.b = put(probe.b, data, slack),
                                   !.put = probe.put \o data,
                                   !.last = [op |-> "put", n |-> Len(data),
                                             had |-> probe.b.len,
                                             at |-> probe.b.offset,
                                             cap |-> Len(probe.b.buf)]]
    /\ UNCHANGED << disk, pusher, objects, volume_counter, volume_size, byte_count, ended,
                    overflow_checks, sink, wstate, wresult, log, calls, n_end >>
    /\ UNCHANGED rvars

\* buffer.drain_into(dst)
BufferDrainCall ==
    /\ probe.res = "buffer"
    /\ \E n \in DrainLens :
         Bind(drain_into(probe.b, n), LAMBDA d :
             probe' = [probe EXCEPT !.b = d.b,
                                    !.got = probe.got \o d.out,
                                    !.last = [op |-> "drain", n |-> n, size |-> d.size,
                                              had |-> probe.b.len]])
    /\ UNCHANGED << disk, pusher, objects, volume_counter, volume_size, byte_count, ended,
                    overflow_checks, sink, wstate, wresult, log, calls, n_end >>
    /\ UNCHANGED rvars

\* one Buffer under any interleaving of put and drain_into
NextBuffer == BufferPutCall \/ BufferDrainCall
SpecBuffer == InitBuffer /\ [][NextBuffer]_vars

\* the keys generate_key may draw
Keys == {"k1", "k2"}

\* a push stream under a fresh key and a pull stream from its header
InitStream ==
    /\ InitPure
    /\ \E key \in Keys :
         probe = [res |-> "stream", pusher |-> new_push(key, StreamHeader),
                  puller |-> new_pull(StreamHeader, key),
                  pushed |-> <<>>, sent |-> <<>>, pulled |-> <<>>, last |-> "Ok"]

\* pusher.push(input)
StreamPush ==
    /\ probe.res = "stream"
    /\ Len(probe.pushed) < MaxMessages
    /\ \E input \in SeqsUpTo(2) :
         Bind(stream_push(probe.pusher, input), LAMBDA c :
             probe' = [probe EXCEPT !.pusher = c.st,
                                    !.pushed = Append(probe.pushed, input),
                                    !.sent = Append(probe.sent, c.ct),
                                    !.last = c.res])
    /\ UNCHANGED << disk, pusher, objects, volume_counter, volume_size, byte_count, ended,
                    overflow_checks, sink, wstate, wresult, log, calls, n_end >>
    /\ UNCHANGED rvars

\* puller.pull(c) of the oldest ciphertext not yet pulled
StreamPull ==
    /\ probe.res = "stream"
    /\ probe.last = "Ok"
    /\ Len(probe.pulled) < Len(probe.sent)
    /\ Bind(stream_pull(probe.puller, probe.sent[Len(probe.pulled) + 1]), LAMBDA p :
           probe' = [probe EXCEPT !.puller = p.st,
                                  !.pulled = IF p.res = "Ok" THEN Append(probe.pulled, p.pt)
                                             ELSE probe.pulled,
                                  !.last = p.res])
    /\ UNCHANGED << disk, pusher, objects, volume_counter, volume_size, byte_count, ended,
                    overflow_checks, sink, wstate, wresult, log, calls, n_end >>
    /\ UNCHANGED rvars

\* one secret stream, pushed into and pulled from in order
NextStream == StreamPush \/ StreamPull
SpecStream == InitStream /\ [][NextStream]_vars

\* the characters a size is typed with, and the sizes typed
SizeChars == {"0", "1", "5", ".", "K", "M", "G", "k", "-"}
RECURSIVE SizeStrings(_)
SizeStrings(n) ==
    IF n = 0 THEN {<<>>}
    ELSE LET S == SizeStrings(n - 1)
         IN  S \cup {Append(s, c) : s \in {t \in S : Len(t) = n - 1}, c \in SizeChars}

InitSize ==
    /\ InitPure
    /\ \E size \in SizeStrings(MaxSizeLen) : probe = [res |-> "size", input |-> size]

\* parse_size(size)
ParseSize ==
    /\ probe.res = "size"
    /\ probe' = [res |-> "parsed", input |-> probe.input, out |-> parse_size(probe.input)]
    /\ UNCHANGED << disk, pusher, objects, volume_counter, volume_size, byte_count, ended,
                    overflow_checks, sink, wstate, wresult, log, calls, n_end >>
    /\ UNCHANGED rvars

\* parse_size alone
NextSize == ParseSize
SpecSize == InitSize /\ [][NextSize]_vars

\* the volume sizes, byte counts and payload lengths the rotation test is
\* probed with: sizes on both sides of the 4096 that is subtracted
ProbedVolumeSizes == {0, 1, 100, 4000, 4095, 4096, 4097, 5300, 8192}
ProbedByteCounts == {0, 56, 182, 1200, 4000}
ProbedPayloadLens == {0, 1, 87, 1024, 4100}

InitRotation ==
    /\ InitR
    /\ volume_size = None /\ overflow_checks \in BOOLEAN /\ sink = "ok"
    /\ disk = <<NewVolume(Some(FileHeader))>>
    /\ pusher = 0 /\ objects = <<>> /\ volume_counter = 1 /\ byte_count = FileHeaderLen
    /\ ended = FALSE /\ wstate = "open" /\ wresult = "Ok"
    /\ log = <<>> /\ calls = <<>> /\ n_end = 0
    /\ \E V \in ProbedVolumeSizes : \E bc \in ProbedByteCounts :
         \E len \in ProbedPayloadLens :
            probe = [res |-> "rotation", V |-> V, bc |-> bc, len |-> len]

\* the test of write_chunk on a writer with Some(V), byte_count bc and a
\* payload of len bytes
RotationProbe ==
    /\ probe.res = "rotation"
    /\ LET chunk_size == 4 + 1 + ADDITIONAL_BYTES + probe.len + ADDITIONAL_BYTES
           extra_size == 4 + 1 + ADDITIONAL_BYTES + VolumeEndAllowance + ADDITIONAL_BYTES
       IN  probe' = [res |-> "tested", V |-> probe.V, bc |-> probe.bc, len |-> probe.len,
                     sum |-> probe.bc + chunk_size + extra_size,
                     out |-> RotationTest(probe.bc, chunk_size, extra_size, probe.V)]
    /\ UNCHANGED << disk, pusher, objects, volume_counter, volume_size, byte_count, ended,
                    overflow_checks, sink, wstate, wresult, log, calls, n_end >>
    /\ UNCHANGED rvars

\* the rotation test alone
NextRotation == RotationProbe
SpecRotation == InitRotation /\ [][NextRotation]_vars

\* the ranges a..b, a..=b, a.., ..b, ..=b and .. that lie within a Vec of n bytes
RangesWithin(n) ==
    {[start |-> Included(a), end |-> Excluded(b)] : a \in 0..n, b \in 0..n}
    \cup {[start |-> Included(a), end |-> Included(b)] : a \in 0..n, b \in 0..(n - 1)}
    \cup {[start |-> Included(a), end |-> Unbounded] : a \in 0..n}
    \cup {[start |-> Unbounded, end |-> Excluded(b)] : b \in 0..n}
    \cup {[start |-> Unbounded, end |-> Included(b)] : b \in 0..(n - 1)}
    \cup {[start |-> Unbounded, end |-> Unbounded]}

\* the first index of a range and the index after its last, as the slice
\* vec[range] takes them
RangeStart(range) == IF range.start.kind = "Unbounded" THEN 0 ELSE range.start.i
RangeEnd(vec, range) ==
    CASE range.end.kind = "Unbounded" -> Len(vec)
      [] range.end.kind = "Included" -> range.end.i + 1
      [] range.end.kind = "Excluded" -> range.end.i

InitWrap ==
    /\ InitR
    /\ volume_size = None /\ overflow_checks \in BOOLEAN /\ sink = "ok"
    /\ disk = <<NewVolume(Some(FileHeader))>>
    /\ pusher = 0 /\ objects = <<>> /\ volume_counter = 1 /\ byte_count = FileHeaderLen
    /\ ended = FALSE /\ wstate = "open" /\ wresult = "Ok"
    /\ log = <<>> /\ calls = <<>> /\ n_end = 0
    /\ \E vec \in SeqsUpTo(MaxWrapLen) : \E range \in RangesWithin(Len(vec)) :
         /\ RangeStart(range) <= RangeEnd(vec, range)
         /\ probe = [res |-> "wrap", vec |-> vec, range |-> range]

\* Buffer::wrap(vec, range), then len() and to_vec() on the result
WrapCall ==
    /\ probe.res = "wrap"
    /\ LET r == wrap(probe.vec, probe.range)
       IN  probe' = [res |-> "wrapped", vec |-> probe.vec, range |-> probe.range,
                     out |-> IF r.res = "panic" THEN [res |-> "panic"]
                             ELSE [res |-> "Ok", len |-> r.b.len, to_vec |-> to_vec(r.b)]]
    /\ UNCHANGED << disk, pusher, objects, volume_counter, volume_size, byte_count, ended,
                    overflow_checks, sink, wstate, wresult, log, calls, n_end >>
    /\ UNCHANGED rvars

\* Buffer::wrap alone
NextWrap == WrapCall
SpecWrap == InitWrap /\ [][NextWrap]_vars

\* a writer, someone who cuts a file short, then a reader
NextTruncate == NextW \/ Truncate \/ NextR
SpecTruncate == Init /\ [][NextTruncate]_vars

\* a writer, someone with the key who rewrites an epilogue, then the binary
NextVerify == NextW \/ ForgeEpilogue \/ DecryptFile \/ TestFile
SpecVerify == Init /\ [][NextVerify]_vars

\* a writer whose source files and output directory can fail
NextFault == NextW \/ WriteObjectSrcFail \/ SinkFails
SpecFault == Init /\ [][NextFault]_vars

\* a writer whose output directory fails for a while and whose caller retries
NextRetry == NextW \/ SinkFails \/ SinkRecovers
SpecRetry == Init /\ [][NextRetry]_vars

\* a writer, someone who reorders the frames, then a reader
NextTamper == NextW \/ Tamper \/ NextR
SpecTamper == Init /\ [][NextTamper]_vars

\* a writer, someone who replaces or removes whole volumes, then a reader
NextVolumes == NextW \/ Splice \/ LoseVolume \/ MisplaceVolume \/ NextR
SpecVolumes == Init /\ [][NextVolumes]_vars

\* a writer, then a reader that may have been given a wrong password
NextPassword == NextW \/ ReaderNew \/ ReaderNewWrongPassword \/ ReadObject \/ Read
SpecPassword == Init /\ [][NextPassword]_vars

\* a writer, someone who changes an info frame, then a reader
NextCorrupt == NextW \/ CorruptInfo \/ NextR
SpecCorrupt == Init /\ [][NextCorrupt]_vars

\* ------------------------------------------------------- views of the state
\* the chunk kinds of one volume file, decoded from its info frames
VolumeKinds(vol) ==
    [i \in 1..(Len(vol.frames) \div 2) |-> ChunkTypeTryFrom(vol.frames[2 * i - 1].pt[1])]

RECURSIVE Flatten(_)
Flatten(ss) == IF ss = <<>> THEN <<>> ELSE Head(ss) \o Flatten(Tail(ss))

\* every chunk kind on disk, volume after volume (VolumeEnd included)
StreamKinds == Flatten([n \in 1..Len(disk) |-> VolumeKinds(disk[n])])
\* the kinds the writer's callers asked for (no VolumeEnd)
LogKinds == [i \in 1..Len(log) |-> log[i].kind]

Count(seq, x) == Cardinality({i \in 1..Len(seq) : seq[i] = x})

Descriptor(info) ==
    [object_type |-> info.object_type, name |-> info.name, path |-> info.path]

\* the descriptors of the calls that returned Ok before chunk i was written
OkBefore(i) ==
    LET ok == SelectSeq(calls, LAMBDA c : c.ok /\ c.last < i)
    IN  [j \in 1..Len(ok) |-> Descriptor(from_path(ok[j].src))]

ManifestDescriptors(part) ==
    LET m == ManifestFromJson(part)
    IN  [j \in 1..Len(m.objects) |-> Descriptor(m.objects[j])]

\* the index in log of the first End chunk (0 when there is none)
EndIndex ==
    LET e == {i \in 1..Len(log) : log[i].kind = "End"}
    IN  IF e = {} THEN 0 ELSE CHOOSE i \in e : \A j \in e : i <= j

\* the calls that returned Ok before the first End chunk, in order
WrittenBeforeEnd == SelectSeq(calls, LAMBDA c : c.ok /\ c.last < EndIndex)

IsPrefix(a, b) == Len(a) <= Len(b) /\ a = SubSeq(b, 1, Len(a))

\* ------------------------------------------------------------------ claims
\* C1: an archive written by write_object calls and end(), read back with the
\* same password by read_object, each file drained before the next call, yields
\* the same descriptors in the same order and every file's bytes unchanged.
C1_RoundTrip ==
    (wstate = "dropped" /\ rstate # "none" /\ tamper.op = "none" /\ ~misused) =>
        /\ ~rfailed
        /\ Len(robjs) <= Len(WrittenBeforeEnd)
        /\ manifest # None => Len(robjs) = Len(WrittenBeforeEnd)
        /\ \A j \in 1..Len(robjs) :
              LET src == WrittenBeforeEnd[j].src
              IN  /\ Descriptor(robjs[j].info) = Descriptor(from_path(src))
                  /\ IsPrefix(robjs[j].data, src.content)
                  /\ robjs[j].epilogue # None => robjs[j].data = src.content

\* a two-unit file and a directory read back in full from several volumes
C1_Witness ==
    /\ tamper.op = "none" /\ ~misused /\ manifest # None
    /\ Len(disk) >= 2
    /\ Len(robjs) = 2
    /\ robjs[1].info.object_type = "file" /\ robjs[1].data = <<2, 1>>
    /\ robjs[1].epilogue # None
    /\ robjs[2].info.object_type = "directory"

\* C2: the manifest emitted by end() lists, in order, every object passed to a
\* successful write_object before it, files and directories alike.
C2_ManifestComplete ==
    \A i \in 1..Len(log) :
        log[i].kind = "End" => ManifestDescriptors(log[i].payload) = OkBefore(i)

\* C3: whatever end() calls precede it, once the writer is gone exactly one End
\* chunk has been emitted, and never more than one at any time.
C3_EndExactlyOnce ==
    /\ Count(StreamKinds, "End") <= 1
    /\ ended /\ wresult # "panic" => Count(StreamKinds, "End") = 1
    /\ wstate # "open" => Count(StreamKinds, "End") = 1

\* C4: exactly one End chunk, the last chunk of the last volume; nothing is
\* emitted after it, write_object after end() included.
C4_EndIsLast ==
    /\ \A i \in 1..Len(StreamKinds) : StreamKinds[i] = "End" => i = Len(StreamKinds)
    /\ wstate = "dropped" =>
         /\ Count(StreamKinds, "End") = 1
         /\ LET k == VolumeKinds(disk[Len(disk)]) IN k # <<>> /\ k[Len(k)] = "End"

\* C5: every volume file but the last is at most volume_size bytes long.
C5_VolumeBudget ==
    volume_size # None =>
        \A n \in 1..(Len(disk) - 1) : VolumeBytes(disk[n]) <= volume_size[1]

LogTag(i) ==
    IF log[i].kind = "Header"
    THEN IF log[i].payload.object_type = "file" THEN "FileHeader" ELSE "DirHeader"
    ELSE log[i].kind

RECURSIVE DataOf(_)
DataOf(chunks) ==
    IF chunks = <<>> THEN <<>>
    ELSE (IF Head(chunks).kind = "Data" THEN Decompress(Head(chunks).payload) ELSE <<>>)
         \o DataOf(Tail(chunks))

\* C8: the Epilogue of every file written carries the number of bytes read and
\* the hex of the hash over exactly those bytes in read order, the same bytes
\* that went through the compressor into the Data chunks.
C8_HashConsistency ==
    \A c \in 1..Len(calls) :
        calls[c].ok /\ calls[c].src.kind = "file" =>
            LET call == calls[c]
                ep == EpilogueFromJson(log[call.last].payload)
            IN  /\ log[call.last].kind = "Epilogue"
                /\ call.read = call.src.content
                /\ ep.size = Len(call.read)
                /\ ep.hash = to_hex(HasherFinalize(HasherUpdate(HasherNew, call.read)))
                /\ DataOf(SubSeq(log, call.first, call.last)) = call.read

\* a file of two different units read in two reads
C8_Witness ==
    \E c \in 1..Len(calls) :
        /\ calls[c].ok /\ calls[c].read = <<2, 1>>
        /\ calls[c].last - calls[c].first = 3
        /\ log[calls[c].first + 2].payload.len # 0

\* C9: whatever the volume_size, read_chunk returns the (kind, payload) pairs
\* that were passed to write_chunk, in order and without loss, never a
\* VolumeEnd, and no call fails before the last of them has been returned.
C9_VolumeTransparency ==
    (rstate # "none" /\ tamper.op = "none") =>
        /\ IsPrefix(returned, log)
        /\ \A i \in 1..Len(returned) : returned[i].kind # "VolumeEnd"
        /\ rresult \notin {"Err:auth", "Err:volume", "Err:filename"}
        /\ rresult = "Err:eof" => returned = log

\* every chunk of an archive of three volumes has been returned
C9_Witness ==
    /\ tamper.op = "none" /\ rstate = "open"
    /\ Len(disk) >= 3 /\ r_file = Len(disk)
    /\ returned = log /\ Len(log) >= 4

\* the stream position of the payload frame of the first chunk that has a
\* frame at or after the first displaced position (payload frames sit at the
\* odd positions)
FirstAffectedPayload == IF tamper.at % 2 = 1 THEN tamper.at ELSE tamper.at + 1

\* C10: after a swap, a drop or a replay of adjacent frames, the first call to
\* fail on the stream fails with an authentication error, and no chunk at or
\* after the first displaced position is ever returned.
C10_OrderRigidity ==
    tamper.op # "none" =>
        /\ rfirst \in {"none", "Err:auth", "Err:framing", "panic"}
        /\ puller.count <= FirstAffectedPayload

\* C11: when volume 002 is replaced by a volume of another archive written with
\* the same password, the first frame read after volume 001 fails
\* authentication, no frame of the other archive is ever authenticated and no
\* chunk but those of volume 001 is returned (a call that returns Ok after the
\* failure is a read of no bytes, which touches neither file nor stream).
C11_SpliceResistance ==
    tamper.op = "splice" =>
        /\ puller.count <= tamper.at
        /\ IsPrefix(returned, log)
        /\ r_file <= 2
        /\ r_file = 2 =>
              /\ r_pos >= InfoBytes + ADDITIONAL_BYTES
              /\ rfirst \in {"Err:auth", "Err:framing", "panic"}
              /\ rresult \notin {"Some", "None"}
              /\ rresult # "Ok" => rresult \in {"Err:auth", "Err:eof"}
              /\ (rresult # "Ok" /\ r_pos = InfoBytes + ADDITIONAL_BYTES)
                    => rresult = "Err:auth"

\* the reader has crossed into the spliced volume, whose frames sit at the
\* stream positions the reader expects, and failed on its first frame
C11_Witness ==
    /\ tamper.op = "splice" /\ r_file = 2
    /\ disk[2].head = None
    /\ disk[2].frames[1].seq = tamper.at
    /\ r_pos = InfoBytes + ADDITIONAL_BYTES /\ rresult = "Err:auth"
    /\ puller.count = tamper.at /\ returned # <<>>

\* C12: when a middle volume is missing, the call that reaches the VolumeEnd of
\* the volume before it fails with a volume error; when a later volume lies in
\* its place, the first frame read from it fails authentication; either way no
\* frame at or after the boundary is authenticated and no chunk of a later
\* volume is returned.
C12_VolumeDropDetection ==
    tamper.op \in {"lose", "misplace"} =>
        /\ puller.count <= tamper.at
        /\ IsPrefix(returned, log)
        /\ rfirst \in {"none", "Err:framing", "panic",
                        IF tamper.op = "lose" THEN "Err:volume" ELSE "Err:auth"}
        /\ puller.count = tamper.at => rfirst # "none"
        /\ rresult \in {"Err:volume", "Err:auth"} => puller.count = tamper.at

\* the reader has stopped with a volume error where the second of three or
\* more volumes is missing, every chunk of the first volume returned
C12_Witness ==
    /\ tamper.op = "lose" /\ Len(disk) >= 3 /\ disk[2] = Absent
    /\ rresult = "Err:volume" /\ rfirst = "Err:volume"
    /\ r_file = 1 /\ r_pos = VolumeBytes(disk[1])
    /\ puller.count = tamper.at /\ returned # <<>>

\* the password ArchiveReader::new was given
ReaderPassword == puller.sid.key.password

\* C13: ArchiveReader::new derives the key from the stored salt, opslimit and
\* memlimit, so the writer's password gives the writer's key; with another
\* password new still returns Ok and, on an archive that holds a chunk, every
\* read_chunk fails, the first of them with an authentication error, and no
\* chunk, object or manifest is returned.
C13_WrongPassword ==
    rstate # "none" =>
        /\ ReaderPassword = Password => puller.sid = WriterSid
        /\ (ReaderPassword # Password /\ log # <<>>) =>
              /\ rstate = "open"
              /\ puller.count = 0 /\ returned = <<>> /\ robjs = <<>> /\ manifest = None
              /\ r_pos = FileHeaderLen => rresult = "Ok"
              /\ r_pos > FileHeaderLen =>
                    (rfirst = "Err:auth" /\ rresult \in {"Err:auth", "Err:eof"})

\* the first read_object of a reader given a wrong password has failed
C13_Witness ==
    /\ rstate = "open" /\ ReaderPassword = "wrong"
    /\ r_pos = FileHeaderLen + InfoBytes + ADDITIONAL_BYTES
    /\ rresult = "Err:auth" /\ log # <<>>

\* the byte offset, in the volume the reader has open, of the frame the puller
\* expects next
NextFrameOffset ==
    LET vol == disk[r_file]
    IN  (IF vol.head = None THEN 0 ELSE FileHeaderLen)
          + FramesLen(SubSeq(vol.frames, 1, puller.count - FramesBefore(r_file)))

\* C14: as long as no call has failed, the reader stands exactly behind the
\* frames it has authenticated, so every payload read consumed the
\* ciphertext_length the writer wrote; a changed info frame is never
\* authenticated, and from the call that fails on it on, only info-frame reads
\* of 22 bytes (or a failed read at the end of the file) move the reader: no
\* payload read is sized by the changed length.
C14_AuthenticatedLength ==
    (rstate # "none" /\ tamper.op \in {"none", "corrupt"}) =>
        /\ rfirst = "none" => r_pos = NextFrameOffset
        /\ tamper.op = "corrupt" =>
              /\ puller.count <= tamper.at
              /\ rfirst \in {"none", "Err:auth", "Err:framing", "panic"}
              /\ puller.count = tamper.at =>
                    \/ r_pos = VolumeBytes(disk[r_file])
                    \/ (r_pos - NextFrameOffset) % (InfoBytes + ADDITIONAL_BYTES) = 0

\* the call that met the changed info frame of a Data chunk has failed, having
\* read the 22 bytes of that frame and nothing of the payload behind it
C14_Witness ==
    /\ tamper.op = "corrupt" /\ rstate = "open"
    /\ puller.count = tamper.at /\ tamper.at >= 2
    /\ rresult = "Err:auth" /\ rfirst = "Err:auth"
    /\ r_pos = NextFrameOffset + InfoBytes + ADDITIONAL_BYTES
    /\ ChunkTypeTryFrom(disk[r_file].frames[puller.count - FramesBefore(r_file) + 1].pt[1]) = "Data"

\* C15: once a reader call has failed with an authentication, framing or
\* truncation error, every later call on that reader fails and leaves the file
\* it has open, its offset and the puller untouched.
C15_Poisoning ==
    [][(rstate = "open" /\ rfirst \in {"Err:auth", "Err:framing", "Err:eof"}) =>
          /\ Failure(rresult')
          /\ r_file' = r_file /\ r_pos' = r_pos /\ puller' = puller]_vars

\* C16: dropping a writer never panics because its end() returned an error
\* (wresult is what end() returned to Drop, "aborted" is the panic of unwrap).
C16_DropSwallowsError ==
    ~(wstate = "aborted" /\ wresult = "Err")

\* C17: read_object returns None only for an End chunk and an object only for a
\* Header chunk, and no reader call panics: a Data or Epilogue chunk met by
\* read_object, like any other kind met by read_data, is an error returned to
\* the caller.
C17_ReaderFraming ==
    rstate # "none" =>
        /\ rresult = "None" => returned[Len(returned)].kind = "End"
        /\ rresult = "Some" => returned[Len(returned)].kind = "Header"
        /\ rresult # "panic" /\ rstate # "panicked"

\* C18: with a sink that never failed, an archive that holds an End chunk holds
\* no partial object, whatever happened to the source files: every file Header
\* before the End is followed by one or more Data chunks and then an Epilogue.
C18_NoPartialObjects ==
    (sink = "ok" /\ EndIndex > 0) =>
        \A i \in 1..(EndIndex - 1) :
            LogTag(i) = "FileHeader" =>
                \E j \in (i + 2)..(EndIndex - 1) :
                    /\ LogTag(j) = "Epilogue"
                    /\ \A k \in (i + 1)..(j - 1) : LogTag(k) = "Data"

\* C19: a payload frame is written only if len(payload) + 17 fits 32 bits, the
\* 4 length bytes then decode to exactly len(payload) + 17, read_chunk asks
\* for exactly that many bytes, and for lengths the writer model works with
\* they are the bytes its info frames carry.
C19_FrameLengthField ==
    /\ probe.res \in {"written", "read"} =>
          /\ FitsU32(WideAdd(probe.len, ADDITIONAL_BYTES))
          /\ Len(probe.field) = InfoBytes - 1
          /\ \A i \in 1..Len(probe.field) : probe.field[i] \in 0..255
          /\ WideReadU32(probe.field) = WideAdd(probe.len, ADDITIONAL_BYTES)
          /\ probe.len.hi < 32767 =>
                probe.field = BigEndianWriteU32(probe.len.hi * Limb + probe.len.lo
                                                + ADDITIONAL_BYTES)
    /\ probe.res = "read" => probe.read = WideAdd(probe.len, ADDITIONAL_BYTES)
    /\ probe.res = "panic" => ~FitsU32(WideAdd(probe.len, ADDITIONAL_BYTES))

\* the longest payload that fits, 2^32 - 18 bytes, has been written with the
\* field ff ff ff ff and read back
C19_Witness ==
    /\ probe.res = "read"
    /\ probe.len = Wide(65535, 65518)
    /\ probe.field = <<255, 255, 255, 255>>
    /\ probe.read = Wide(65535, 65535)

\* the epilogues of the Epilogue chunks written, decoded
LogEpilogues ==
    {EpilogueFromJson(log[i].payload) : i \in {k \in 1..Len(log) : log[k].kind = "Epilogue"}}

\* C20: in the manifest the reader decodes from the End chunk, every file
\* descriptor carries an epilogue, the size and hash of an Epilogue chunk of
\* the archive, and every directory descriptor carries none.
C20_ManifestEpilogues ==
    (manifest # None /\ tamper.op = "none") =>
        \A j \in 1..Len(manifest[1].objects) :
            LET d == manifest[1].objects[j]
            IN  IF d.object_type = "file"
                THEN d.epilogue # None /\ d.epilogue[1] \in LogEpilogues
                ELSE d.epilogue = None

\* the index in returned of the Header the live ObjectReader was made from
\* (0 when there is none)
LiveHeader ==
    LET hs == {h \in 1..Len(returned) :
                 /\ returned[h].kind = "Header"
                 /\ \A k \in (h + 1)..Len(returned) : returned[k].kind # "Header"}
    IN  IF hs = {} THEN 0 ELSE CHOOSE h \in hs : TRUE

\* C21: on the ObjectReader of a file, a read into a non-empty buffer returns
\* Ok(0) only with object_epilogue populated, and object_epilogue is populated
\* only from the Epilogue chunk that follows the object's Header and Data
\* chunks, when the plaintext of all of them has been delivered and none of
\* it is left in the buffer.
C21_EpilogueOnEOF ==
    (tamper.op = "none" /\ oreader # None /\ oreader[1].object_info.object_type = "file") =>
        /\ r_zero => oreader[1].object_epilogue # None
        /\ oreader[1].object_epilogue # None =>
              LET L == Len(returned)
                  h == LiveHeader
              IN  /\ h > 0 /\ h < L
                  /\ InfoFromJson(returned[h].payload) = oreader[1].object_info
                  /\ returned[L].kind = "Epilogue"
                  /\ oreader[1].object_epilogue[1] = EpilogueFromJson(returned[L].payload)
                  /\ \A k \in (h + 1)..(L - 1) : returned[k].kind = "Data"
                  /\ oreader[1].buf = <<>>
                  /\ robjs[Len(robjs)].data = DataOf(SubSeq(returned, h + 1, L - 1))

\* a read on a file of two units has returned Ok(0) with the epilogue in place,
\* after a Data chunk that decompressed to nothing was met on the way
C21_Witness ==
    /\ tamper.op = "none" /\ oreader # None /\ r_zero
    /\ oreader[1].object_info.object_type = "file"
    /\ oreader[1].object_epilogue # None
    /\ Len(robjs[Len(robjs)].data) = 2
    /\ \E k \in 1..Len(returned) :
         returned[k].kind = "Data" /\ Decompress(returned[k].payload) = <<>>

\* C22: when a file of the archive ends before an End or VolumeEnd chunk of it
\* is whole, no frame
\* at or after the cut is authenticated, so every read_chunk that gets there
\* fails; the first failure on the stream is the failed read at the end of the
\* file; read_object returns None and the manifest is set only when an End
\* chunk that lies before the cut has been authenticated, and a file object
\* never reports its end without its Epilogue.
C22_Truncation ==
    tamper.op = "truncate" =>
        /\ puller.count <= tamper.at
        /\ IsPrefix(returned, log)
        /\ (rresult = "None" \/ manifest # None) =>
              \E k \in 1..Len(returned) : returned[k].kind = "End"
        /\ rfirst \in {"none", "Err:eof", "Err:framing", "panic"}
        /\ rfirst = "Err:eof" => r_pos = VolumeBytes(disk[r_file])
        /\ (r_zero /\ oreader[1].object_info.object_type = "file")
              => oreader[1].object_epilogue # None

\* the second volume was cut inside a frame and the reader, having returned
\* every chunk before the cut, has failed at the end of that file
C22_Witness ==
    /\ tamper.op = "truncate" /\ r_file = 2 /\ Len(disk) >= 3
    /\ rresult = "Err:eof" /\ rfirst = "Err:eof"
    /\ puller.count >= tamper.at - 1 /\ returned # <<>>
    /\ disk[2].frames # <<>>
    /\ disk[2].frames[Len(disk[2].frames)].seq = Forged

\* the objects whose Header was written before the first End chunk
ObjectsBeforeEnd == Cardinality({i \in 1..EndIndex : log[i].kind = "Header"})

\* C23: when the hash of a file's decompressed plaintext differs from the hash
\* in its epilogue, the run reports the mismatch for that object and still
\* reads and processes every object that follows it in the archive.
C23_HashMismatchNotFatal ==
    (tamper.op = "forge" /\ run.res # "idle") =>
        /\ \E k \in 1..Len(run.done) : run.done[k].verdict = "mismatch"
        /\ Len(run.done) = ObjectsBeforeEnd

\* the number a sequence of decimal digits stands for
RECURSIVE ParseDecimal(_)
ParseDecimal(d) ==
    IF d = <<>> THEN 0
    ELSE ParseDecimal(SubSeq(d, 1, Len(d) - 1)) * 10
         + (CHOOSE k \in 0..9 : DecDigits[k + 1] = d[Len(d)])

\* C24: the writer names volume N with the given name, a dot and N in decimal,
\* zero-padded to three digits (more digits from 1000 on); the reader opened on
\* the first volume opens, as the volume after N - 1, exactly that name; a
\* reader opened on a file whose name does not end in ".001" refuses.
C24_VolumeNaming ==
    /\ probe.res \in {"named", "opened"} =>
         LET suffix == SubSeq(probe.wname, Len(probe.base) + 1, Len(probe.wname))
             digits == Tail(suffix)
         IN  /\ SubSeq(probe.wname, 1, Len(probe.base)) = probe.base
             /\ Head(suffix) = "."
             /\ \A i \in 1..Len(digits) : \E k \in 0..9 : digits[i] = DecDigits[k + 1]
             /\ ParseDecimal(digits) = probe.n
             /\ Len(digits) >= 3
             /\ Len(digits) > 3 => digits[1] # "0"
             /\ EndsWith(probe.first, <<".", "0", "0", "1">>)
    /\ probe.res = "opened" =>
         /\ probe.on = "first" => probe.next.res = "Ok" /\ probe.next.name = probe.wname
         /\ ~EndsWith(probe.raw, <<".", "0", "0", "1">>) => probe.next.res = "Err:filename"

\* the reader opened on "a.001.001" has opened volume 1000, "a.001.1000"
C24_Witness ==
    /\ probe.res = "opened" /\ probe.on = "first" /\ probe.n = 1000
    /\ probe.base = <<"a", ".", "0", "0", "1">>
    /\ probe.next.res = "Ok"
    /\ probe.next.name = <<"a", ".", "0", "0", "1", ".", "1", "0", "0", "0">>

\* the offsets of file vol at which a frame starts or the file ends
FrameOffsets(vol) ==
    { (IF vol.head = None THEN 0 ELSE FileHeaderLen) + FramesLen(SubSeq(vol.frames, 1, k)) :
        k \in 0..Len(vol.frames) }

\* C25: only the first file begins with the header, 56 bytes written once by
\* ArchiveWriter::new: the salt (16), opslimit and memlimit (8 each, big
\* endian), the stream header (24), in that order, and ArchiveReader::new reads
\* them once in the same order and so holds the writer's key and stream; every
\* later volume begins with an info frame that continues the same stream, and
\* the reader takes it from offset 0.
C25_HeaderOnce ==
    /\ \A v \in 1..Len(disk) : (disk[v].head # None) <=> (v = 1)
    /\ LET b == disk[1].head[1]
       IN  /\ Len(b) = 56 /\ FileHeaderLen = 56
           /\ SubSeq(b, 1, 16) = SaltBytes(Salt)
           /\ SubSeq(b, 17, 24) = <<0, 0, 0, 0, 0, 0, 0, 3>>
           /\ SubSeq(b, 25, 32) = <<0, 0, 0, 0, 64, 0, 0, 0>>
           /\ SubSeq(b, 33, 56) = StreamHeaderBytes(StreamHeader)
    /\ \A v \in 2..Len(disk) :
         LET prev == disk[v - 1].frames
             first == disk[v].frames[1]
         IN  /\ disk[v].frames # <<>>
             /\ first.len = InfoBytes + ADDITIONAL_BYTES
             /\ ChunkTypeTryFrom(first.pt[1]) # "Invalid"
             /\ first.sid = WriterSid
             /\ first.seq = prev[Len(prev)].seq + 1
    /\ rstate # "none" =>
         /\ puller.sid = WriterSid
         /\ r_pos \in FrameOffsets(disk[r_file])
         /\ puller.count = FramesBefore(r_file)
              + Cardinality({k \in 1..Len(disk[r_file].frames) :
                    (IF r_file = 1 THEN FileHeaderLen ELSE 0)
                    + FramesLen(SubSeq(disk[r_file].frames, 1, k)) <= r_pos})

\* the reader has gone on into a third volume and read its first chunk there,
\* from offset 0
C25_Witness ==
    /\ rstate = "open" /\ r_file = 3 /\ rresult \in {"Ok", "Some"}
    /\ disk[3].head = None
    /\ r_pos = disk[3].frames[1].len + disk[3].frames[2].len
    /\ puller.sid = WriterSid

\* C26: manifest is None as long as no End chunk has been read; read_object
\* returns None exactly when the chunk it reads is End, and from then on
\* manifest holds the manifest decoded from that chunk.
C26_ReaderStateMachine ==
    /\ [](/\ (\A k \in 1..Len(returned) : returned[k].kind # "End") => manifest = None
          /\ manifest # None =>
                \E k \in 1..Len(returned) :
                    /\ returned[k].kind = "End"
                    /\ manifest[1] = ManifestFromJson(returned[k].payload)
          /\ rresult = "None" =>
                /\ manifest # None
                /\ returned[Len(returned)].kind = "End")
    /\ [][/\ ReadObject =>
               (rresult' = "None" <=>
                   /\ Len(returned') = Len(returned) + 1
                   /\ returned'[Len(returned')].kind = "End")
          /\ manifest # None => manifest' = manifest]_vars

\* read_object has returned None with a manifest of two objects, and the call
\* after that has failed at the end of the file
C26_Witness ==
    /\ manifest # None /\ Len(manifest[1].objects) = 2
    /\ returned[Len(returned)].kind = "End"
    /\ rresult = "Err:eof"

\* C27: under any interleaving of put and drain_into, the bytes delivered so
\* far are, in order, a prefix of the bytes put so far and the live bytes are
\* the rest of them; a drain_into of n bytes delivers min(n, len()) bytes, and
\* len() is the number of bytes put and not yet drained.
C27_BufferFifo ==
    probe.res = "buffer" =>
        /\ IsPrefix(probe.got, probe.put)
        /\ deref(probe.b) = SubSeq(probe.put, Len(probe.got) + 1, Len(probe.put))
        /\ probe.b.len = Len(probe.put) - Len(probe.got)
        /\ probe.b.offset + probe.b.len <= Len(probe.b.buf)
        /\ probe.last.op = "drain" =>
              /\ probe.last.size = Min(probe.last.n, probe.last.had)
              /\ probe.b.len = probe.last.had - probe.last.size
              /\ SubSeq(probe.got, Len(probe.got) - probe.last.size + 1, Len(probe.got))
                   = SubSeq(probe.put, Len(probe.got) - probe.last.size + 1, Len(probe.got))
        /\ probe.last.op = "put" => probe.b.len = probe.last.had + probe.last.n

\* a Buffer that has grown and been drained in part: live bytes lie behind
\* drained ones, and the last drain_into took fewer bytes than were there
C27_Witness ==
    /\ probe.res = "buffer"
    /\ Len(probe.b.buf) > probe.b.initial_capacity
    /\ probe.b.offset > 0 /\ probe.b.len > 0
    /\ probe.last.op = "drain" /\ probe.last.size = probe.last.n
    /\ probe.got = <<1, 2>> /\ deref(probe.b) = <<2, 1>>

\* C28: with a push stream and a pull stream made from the same key and the
\* push stream's header, every push and every in-order pull succeeds, the
\* plaintexts pulled are the plaintexts pushed, each ciphertext is its
\* plaintext's length plus the 17 bytes of overhead, and each push and each
\* pull moves its stream on by one message.
C28_StreamRoundTrip ==
    probe.res = "stream" =>
        /\ probe.last = "Ok"
        /\ IsPrefix(probe.pulled, probe.pushed)
        /\ Len(probe.sent) = Len(probe.pushed)
        /\ \A i \in 1..Len(probe.sent) : probe.sent[i].len = Len(probe.pushed[i]) + 17
        /\ probe.pusher.count = Len(probe.pushed)
        /\ probe.puller.count = Len(probe.pulled)

\* four messages, one of them empty and two of them equal, pushed and pulled
C28_Witness ==
    /\ probe.res = "stream"
    /\ Len(probe.pulled) = 4 /\ probe.pulled = probe.pushed
    /\ probe.pulled[1] = <<>> /\ probe.pulled[2] = probe.pulled[3]
    /\ probe.pulled[4] = <<2, 1>>

\* the input is a non-negative integer in decimal, with or without one of the
\* suffixes K, M, G
IsIntegerSize(size) ==
    LET suffixed == size # <<>> /\ size[Len(size)] \in {"K", "M", "G"}
        number == IF suffixed THEN SubSeq(size, 1, Len(size) - 1) ELSE size
    IN  number # <<>> /\ \A i \in 1..Len(number) : IsDigit(number[i])

\* n * 1024^j
Times1024(n, j) == IF n = 0 THEN <<>> ELSE ToLimbs(n) \o [i \in 1..j |-> 0]

\* C29: parse_size returns n * 1024, n * 1024^2, n * 1024^3 for a non-negative
\* integer n followed by K, M, G, and n for n alone; every other suffix or
\* shape is rejected with an error.
C29_ParseSize ==
    probe.res = "parsed" =>
        LET size == probe.input
            suffixed == size[Len(size)] \in {"K", "M", "G"}
            number == IF suffixed THEN SubSeq(size, 1, Len(size) - 1) ELSE size
        IN  IF IsIntegerSize(size)
            THEN /\ probe.out.res = "Ok"
                 /\ probe.out.size =
                      Times1024(DigitsValue(number),
                                IF suffixed THEN SuffixPower(size[Len(size)]) ELSE 0)
            ELSE probe.out.res # "Ok"

\* chunk k of a volume file is the frame pair (2k - 1, 2k): its kind, its size
\* on disk, and the bytes of the file before it
ChunkKindAt(vol, k) == ChunkTypeTryFrom(vol.frames[2 * k - 1].pt[1])
ChunkSizeAt(vol, k) == vol.frames[2 * k - 1].len + vol.frames[2 * k].len
BytesBefore(vol, k) ==
    (IF vol.head = None THEN 0 ELSE FileHeaderLen)
    + FramesLen(SubSeq(vol.frames, 1, 2 * k - 2))

\* C30: with a volume_size, a chunk is written as the first chunk of a new
\* volume exactly when byte_count, its frame pair and the VolumeEnd allowance
\* together exceed volume_size - 4096: the file it did not fit ends with the
\* VolumeEnd written before the new one was opened, byte_count restarts at 0
\* and volume_counter goes up by one. Without a volume_size there is one file,
\* no VolumeEnd, and volume_counter stays 1.
C30_RotationStep ==
    /\ volume_counter = Len(disk)
    /\ wresult # "panic" => byte_count = VolumeBytes(disk[volume_counter])
    /\ volume_size = None =>
         /\ volume_counter = 1
         /\ Count(StreamKinds, "VolumeEnd") = 0
    /\ volume_size # None =>
         \A v \in 1..Len(disk) : \A k \in 1..(Len(disk[v].frames) \div 2) :
            LET first == k = 1 /\ v > 1
                last == Len(disk[v - 1].frames) \div 2
                bc == IF first THEN BytesBefore(disk[v - 1], last)
                      ELSE BytesBefore(disk[v], k)
                extra == 4 + 1 + ADDITIONAL_BYTES + VolumeEndAllowance + ADDITIONAL_BYTES
            IN  IF ChunkKindAt(disk[v], k) = "VolumeEnd"
                THEN v < Len(disk) /\ 2 * k = Len(disk[v].frames)
                ELSE /\ first => ChunkKindAt(disk[v - 1], last) = "VolumeEnd"
                     /\ first <=> (bc + ChunkSizeAt(disk[v], k) + extra
                                      > volume_size[1] - SafetyMargin)

\* C31: whatever the sizes of the destinations, the bytes the reads on a
\* file's ObjectReader have returned, followed by the bytes held over in its
\* Buffer, are the decompressed outputs of the object's Data chunks read so
\* far, in order; and a read takes a chunk from the archive only when the
\* Buffer is empty.
C31_CarryOver ==
    /\ []((tamper.op = "none" /\ oreader # None /\ LiveHeader > 0
           /\ oreader[1].object_info.object_type = "file") =>
             robjs[Len(robjs)].data \o oreader[1].buf
               = DataOf(SubSeq(returned, LiveHeader + 1, Len(returned))))
    /\ [][(Read /\ returned' # returned) => oreader[1].buf = <<>>]_vars

\* one byte of a Data chunk of two was returned by a read into one byte, the
\* other was held over and returned by the next read
C31_Witness ==
    /\ tamper.op = "none" /\ oreader # None /\ LiveHeader > 0
    /\ oreader[1].object_info.object_type = "file"
    /\ Len(returned) = LiveHeader + 1
    /\ Decompress(returned[Len(returned)].payload) = <<2, 1>>
    /\ robjs[Len(robjs)].data = <<2, 1>> /\ oreader[1].buf = <<>>
    /\ rresult = "Ok"

\* C32: in every state of a Buffer offset + len is at most the length of its
\* storage; a put moves the live bytes to offset 0 exactly when the room
\* behind them is smaller than the data, and makes the storage longer only
\* when the data does not fit after that either; the bytes that were live
\* before the put are live after it, in place and in order, before the data.
C32_BufferCompaction ==
    probe.res = "buffer" =>
        /\ probe.b.offset + probe.b.len <= Len(probe.b.buf)
        /\ probe.last.op = "put" =>
              LET l == probe.last
                  room == l.cap - (l.at + l.had)
                  live == deref(probe.b)
              IN  /\ probe.b.offset = (IF room < l.n THEN 0 ELSE l.at)
                  /\ Len(probe.b.buf) >= l.cap
                  /\ Len(probe.b.buf) > l.cap => l.n > room + l.at
                  /\ l.n <= room + l.at => Len(probe.b.buf) = l.cap
                  /\ SubSeq(live, 1, l.had)
                       = SubSeq(probe.put, Len(probe.got) + 1, Len(probe.got) + l.had)
                  /\ SubSeq(live, l.had + 1, Len(live))
                       = SubSeq(probe.put, Len(probe.put) - l.n + 1, Len(probe.put))

\* a put that found too little room behind the live bytes moved them to the
\* front, where the data then fitted without the storage growing
C32_Witness ==
    /\ probe.res = "buffer" /\ probe.last.op = "put"
    /\ probe.last.at > 0 /\ probe.last.had > 0 /\ probe.b.offset = 0
    /\ Len(probe.b.buf) = probe.last.cap
    /\ probe.last.n > probe.last.cap - (probe.last.at + probe.last.had)

\* C33: for every file written, the chunks between its Header and its Epilogue
\* are Data chunks, at least one; every one but the last is a non-empty
\* compress() output, the last is the finish() output, empty or not; an empty
\* file gives Header, one Data, Epilogue with size 0.
C33_DataEmission ==
    \A c \in 1..Len(calls) :
        calls[c].ok /\ calls[c].src.kind = "file" =>
            LET call == calls[c]
                inner == SubSeq(log, call.first + 1, call.last - 1)
            IN  /\ log[call.first].kind = "Header"
                /\ log[call.last].kind = "Epilogue"
                /\ Len(inner) >= 1
                /\ \A i \in 1..Len(inner) : inner[i].kind = "Data"
                /\ \A i \in 1..(Len(inner) - 1) :
                      inner[i].payload.len # 0 /\ ~inner[i].payload.fin
                /\ inner[Len(inner)].payload.fin
                /\ call.src.content = <<>> =>
                      /\ Len(inner) = 1
                      /\ EpilogueFromJson(log[call.last].payload).size = 0

\* an empty file whose only Data chunk is the empty finish() output, and a
\* one-unit file whose empty compress() output was skipped
C33_Witness ==
    /\ \E c \in 1..Len(calls) :
          /\ calls[c].ok /\ calls[c].src.kind = "file" /\ calls[c].src.content = <<>>
          /\ calls[c].last - calls[c].first = 2
          /\ log[calls[c].first + 1].payload.len = 0
    /\ \E c \in 1..Len(calls) :
          /\ calls[c].ok /\ Len(calls[c].src.content) = 1
          /\ calls[c].last - calls[c].first = 2

\* C34: an end() call, explicit or from the drop path, returns Ok only if an
\* End chunk is in the sink (n_end counts the explicit calls, "dropped" is the
\* state a drop whose end() returned Ok leaves).
C34_EndOkMeansWritten ==
    [][((n_end' = n_end + 1 \/ wstate' = "dropped") /\ wresult' = "Ok") =>
          Count(StreamKinds', "End") >= 1]_vars

\* every frame in the sink, volume after volume
SinkFrames == Flatten([n \in 1..Len(disk) |-> disk[n].frames])

\* C35: whatever write failed before, the writer's stream position is the
\* number of frames in the sink, and every frame in the sink is accepted by a
\* reader that pulls the frames in order from the start.
C35_StreamConsistentAfterError ==
    /\ pusher = Len(SinkFrames)
    /\ \A k \in 1..Len(SinkFrames) :
          PullOk([sid |-> WriterSid, count |-> k - 1],
                 [res |-> "frame", frame |-> SinkFrames[k]])

\* C36: no volume file holds two VolumeEnd chunks, whatever File::create
\* failed and whatever write was retried.
C36_RotationAtomic ==
    \A v \in 1..Len(disk) : Count(VolumeKinds(disk[v]), "VolumeEnd") <= 1

\* C37: for every volume_size, those below 4096 included, and every payload
\* length, the rotation test of write_chunk neither panics nor wraps: its
\* outcome is that of byte_count + chunk_size + extra_size > volume_size - 4096
\* over the integers.
C37_RotationTestExact ==
    probe.res = "tested" =>
        probe.out = IF probe.sum > probe.V - SafetyMargin THEN "rotate" ELSE "stay"

\* C38: as long as every write has succeeded, volume_counter is 1 plus the
\* number of VolumeEnd chunks emitted, byte_count is the size of the open
\* volume file, every volume after the first holds a chunk that is not a
\* VolumeEnd, and no two VolumeEnd chunks follow one another in the stream.
C38_CounterInvariant ==
    /\ volume_counter = 1 + Count(StreamKinds, "VolumeEnd")
    /\ volume_counter = Len(disk)
    /\ byte_count = VolumeBytes(disk[volume_counter])
    /\ \A v \in 2..Len(disk) :
          \E k \in 1..Len(VolumeKinds(disk[v])) : VolumeKinds(disk[v])[k] # "VolumeEnd"
    /\ \A i \in 1..(Len(StreamKinds) - 1) :
          ~(StreamKinds[i] = "VolumeEnd" /\ StreamKinds[i + 1] = "VolumeEnd")

\* three volumes, the last with more than one chunk
C38_Witness ==
    /\ wresult = "Ok" /\ volume_counter = 3
    /\ Count(StreamKinds, "VolumeEnd") = 2
    /\ Len(disk[3].frames) >= 4
    /\ byte_count > 0

\* C39: for a Vec and a range a..b, a..=b, a.., ..b, ..=b or .. within it,
\* Buffer::wrap gives a Buffer whose len() is the number of indices in the
\* range and whose to_vec() is that part of the Vec.
C39_WrapRange ==
    probe.res = "wrapped" =>
        /\ probe.out.res = "Ok"
        /\ probe.out.len = RangeEnd(probe.vec, probe.range) - RangeStart(probe.range)
        /\ probe.out.to_vec =
              [res |-> "Ok",
               vec |-> SubSeq(probe.vec, RangeStart(probe.range) + 1,
                              RangeEnd(probe.vec, probe.range))]

\* C40: on the archive a writer has finished, a caller that keeps calling
\* read on a file object, Interrupted or not, gets Ok(0) in the end; one that
\* drains every file object and keeps calling read_object gets None in the
\* end; and one call never opens more volumes than are left.
C40_Termination ==
    /\ (rstate = "open" /\ wstate = "dropped") ~> (rresult = "None")
    /\ (rstate = "open" /\ wstate = "dropped" /\ oreader # None
          /\ oreader[1].object_info.object_type = "file") ~> r_zero
    /\ [][rstate = "open" => (r_file' >= r_file /\ r_file' - r_file <= Len(disk) - r_file)]_vars

\* an archive of several volumes read to its End, an empty file (its one Data
\* chunk decompresses to nothing: Interrupted) among its objects
C40_Witness ==
    /\ wstate = "dropped" /\ rresult = "None" /\ manifest # None
    /\ r_file >= 2 /\ r_file = Len(disk)
    /\ \E j \in 1..Len(robjs) :
          /\ robjs[j].info.object_type = "file"
          /\ robjs[j].data = <<>> /\ robjs[j].epilogue # None
    /\ \E j \in 1..Len(robjs) : robjs[j].data # <<>>

====
